---- MODULE Spec2Model ----
(***************************************************************************)
(* A model of pyGSTi's DataSet (packages/pygsti/objects/dataset.py) and of *)
(* the gate-string compression helpers defined beside it, and of the       *)
(* fiducial pair search (packages/pygsti/algorithms/                       *)
(* fiducialpairreduction.py), of the memoize decorator (packages/pygsti/    *)
(* tools/memoize.py) and of the Basis registry (packages/pygsti/tools/      *)
(* basis.py).                                                              *)
(*                                                                         *)
(* Python values are modelled as follows.                                  *)
(*   - a tuple or list is a sequence;                                      *)
(*   - an OrderedDict is a sequence of [key, idx] records, in insertion    *)
(*     order, with pairwise distinct keys;                                 *)
(*   - a count is a rational number with denominator Denom, stored as its  *)
(*     numerator (so 10 counts are the integer 10 * Denom);                *)
(*   - a raised exception is an outcome "error" that leaves the state as   *)
(*     it was when the exception left the handler.                         *)
(***************************************************************************)
EXTENDS Integers, Sequences, FiniteSets, TLC

\* ------------------------------------------------------------------ bounds
\* longest gate string handed to compress_gate_label_tuple
MaxLen == 5
\* largest maxPeriodToLookFor tried
MaxPeriod == 3
\* counts are multiples of 1/Denom
Denom == 4
\* DataSet objects alive at once
MaxObjs == 3
\* method calls in one run
MaxOps == 3
\* largest nRandom tried
MaxRandom == 2

\* ---------------------------------------------------------------- helpers
Min(a, b) == IF a <= b THEN a ELSE b
Abs(a) == IF a >= 0 THEN a ELSE -a

\* Python's s[lo:hi] for 0 <= lo, 0 <= hi (0-based, end exclusive, clamped).
Slice(s, lo, hi) ==
  LET h == Min(hi, Len(s))
  IN IF lo >= h THEN <<>> ELSE SubSeq(s, lo + 1, h)

RECURSIVE Repeat(_, _)
\* Python's period * n for a tuple and an integer.
Repeat(period, n) == IF n <= 0 THEN <<>> ELSE period \o Repeat(period, n - 1)

\* ------------------------------------------------- gate-string compression
\* The marker that opens a compressed tuple.
Marker == "CCC"

\* An element of a (possibly compressed) tuple is a gate label or a
\* (period, n) run.
Lab(x) == [kind |-> "label", lab |-> x, period |-> <<>>, n |-> 0]
Run(p, k) == [kind |-> "run", lab |-> "", period |-> p, n |-> k]

AsItems(gateString) == [i \in 1..Len(gateString) |-> Lab(gateString[i])]

RECURSIVE CountPeriods(_, _, _)
CountPeriods(gateString, periodLen, n) ==
  IF Slice(gateString, 0, periodLen)
       = Slice(gateString, n * periodLen, (n + 1) * periodLen)
  THEN CountPeriods(gateString, periodLen, n + 1)
  ELSE n

getNumPeriods(gateString, periodLen) ==
  IF Len(gateString) < periodLen THEN 0
  ELSE CountPeriods(gateString, periodLen, 0)

\* score[periodLen] is 0, 4.1/periodLen or sqrt(periodLen)*n.  Every score is
\* non-negative, so scores are compared through their squares, kept as the
\* fraction <<numerator, denominator>>: 0, 1681/(100 p^2) or p n^2.
ScoreSq(periodLen, n) ==
  IF n = 0 THEN <<0, 1>>
  ELSE IF n = 1 THEN <<1681, 100 * periodLen * periodLen>>
  ELSE <<periodLen * n * n, 1>>

ScoreLess(a, b) == a[1] * b[2] < b[1] * a[2]

\* score and numperiods as filled by the loop over periodLen; index 0 keeps
\* the zero the arrays are created with.
NumPeriodsAt(rest, periodLen) ==
  IF periodLen = 0 THEN 0 ELSE getNumPeriods(rest, periodLen)

\* numpy's argmax: the first index holding the largest score.
ArgMaxScore(rest, maxPeriodToLookFor) ==
  LET sc(p) == ScoreSq(p, NumPeriodsAt(rest, p))
  IN CHOOSE p \in 0..maxPeriodToLookFor :
       /\ \A q \in 0..maxPeriodToLookFor : ~ScoreLess(sc(p), sc(q))
       /\ \A q \in 0..(p - 1) : ScoreLess(sc(q), sc(p))

RECURSIVE CompressFrom(_, _, _, _)
\* The while loop of compress_gate_label_tuple from position start, with the
\* runs emitted so far.  The result is [ok, val]: ok is FALSE when the
\* assertion n > 0 and bestPeriodLen > 0 fails.
CompressFrom(gateString, start, compressed, maxPeriodToLookFor) ==
  IF start >= Len(gateString) THEN [ok |-> TRUE, val |-> compressed]
  ELSE
    LET rest == Slice(gateString, start, Len(gateString))
        bestPeriodLen == ArgMaxScore(rest, maxPeriodToLookFor)
        n == NumPeriodsAt(rest, bestPeriodLen)
        bestPeriod == Slice(gateString, start, start + bestPeriodLen)
        lastRun == compressed[Len(compressed)]
        merged == [compressed EXCEPT
                     ![Len(compressed)] = Run(lastRun.period \o bestPeriod, 1)]
    IN IF ~(n > 0 /\ bestPeriodLen > 0) THEN [ok |-> FALSE, val |-> <<>>]
       ELSE CompressFrom(
              gateString,
              start + bestPeriodLen * n,
              IF start > 0 /\ n = 1 /\ lastRun.n = 1
                THEN merged
                ELSE Append(compressed, Run(bestPeriod, n)),
              maxPeriodToLookFor)

compress_gate_label_tuple(gateString, minLenToCompress, maxPeriodToLookFor) ==
  IF Len(gateString) < minLenToCompress
    THEN [ok |-> TRUE, val |-> AsItems(gateString)]
    ELSE CompressFrom(gateString, 0, <<Lab(Marker)>>, maxPeriodToLookFor)

RECURSIVE ExpandRuns(_, _)
\* The for loop of expand_gate_label_tuple: every element after the marker is
\* unpacked as (period, n); a gate label does not unpack.
ExpandRuns(items, expandedString) ==
  IF items = <<>> THEN [ok |-> TRUE, val |-> expandedString]
  ELSE IF Head(items).kind # "run" THEN [ok |-> FALSE, val |-> <<>>]
  ELSE ExpandRuns(Tail(items),
                  expandedString \o Repeat(Head(items).period, Head(items).n))

expand_gate_label_tuple(compressedGateString) ==
  IF Len(compressedGateString) = 0 THEN [ok |-> TRUE, val |-> <<>>]
  ELSE IF compressedGateString[1] # Lab(Marker)
    THEN [ok |-> TRUE,
          val |-> [i \in 1..Len(compressedGateString) |->
                     compressedGateString[i].lab]]
  ELSE ExpandRuns(Tail(compressedGateString), <<>>)

\* ------------------------------------------------------------ OrderedDict
Entry(k, v) == [key |-> k, idx |-> v]
Has(od, k) == \E i \in 1..Len(od) : od[i].key = k
Pos(od, k) == CHOOSE i \in 1..Len(od) : od[i].key = k
Get(od, k) == od[Pos(od, k)].idx
Keys(od) == [i \in 1..Len(od) |-> od[i].key]
Values(od) == [i \in 1..Len(od) |-> od[i].idx]
\* od[k] = v: a new key goes last, a known key keeps its place.
Put(od, k, v) ==
  IF Has(od, k) THEN [od EXCEPT ![Pos(od, k)].idx = v]
  ELSE Append(od, Entry(k, v))

RECURSIVE PutAll(_, _, _)
PutAll(od, keys, vals) ==
  IF keys = <<>> \/ vals = <<>> THEN od
  ELSE PutAll(Put(od, Head(keys), Head(vals)), Tail(keys), Tail(vals))

\* OrderedDict(zip(keys, vals))
FromPairs(keys, vals) == PutAll(<<>>, keys, vals)
\* OrderedDict([(k, i) for (i, k) in enumerate(keys)])
Enumerate(keys) == FromPairs(keys, [i \in 1..Len(keys) |-> i - 1])

RECURSIVE Sum(_)
Sum(countList) ==
  IF countList = <<>> THEN 0 ELSE Head(countList) + Sum(Tail(countList))

\* C5's mutant: only an exactly zero total is dropped.
ExactlyZero(total) == total = 0

\* round(total) == 0, for Python 2's round (halves go away from zero).
RoundsToZero(total) == 2 * Abs(total) < Denom

\* row += countArray for two arrays of one length
AddRows(row, countArray) == [i \in 1..Len(row) |-> row[i] + countArray[i]]

RECURSIVE remove_duplicates(_)
\* the list without its repeated elements, first occurrences kept
remove_duplicates(l) ==
  IF l = <<>> THEN <<>>
  ELSE LET init == remove_duplicates(SubSeq(l, 1, Len(l) - 1))
           x == l[Len(l)]
       IN IF \E i \in 1..Len(init) : init[i] = x THEN init ELSE Append(init, x)

\* ---------------------------------------------------------------- DataSet
\* A DataSet object; counts is the list of rows (mutable) or the rows of the
\* 2-D array (static).
Obj(gs, sl, c, st) ==
  [alive |-> TRUE, gsIndex |-> gs, slIndex |-> sl, counts |-> c, bStatic |-> st]
NoObj ==
  [alive |-> FALSE, gsIndex |-> <<>>, slIndex |-> <<>>, counts |-> <<>>,
   bStatic |-> FALSE]

\* What a method call leaves: the receiver (or the new object) and whether an
\* exception left the call.
Return(ds) == [outcome |-> "ok", ds |-> ds]
Raise(ds) == [outcome |-> "error", ds |-> ds]

get_spam_labels(ds) == Keys(ds.slIndex)

\* DataSet.__init__ as its callers in this file use it: counts and both index
\* dictionaries given (truncate of a static DataSet), or spamLabels alone.
DataSetInit(counts, gateStringIndices, spamLabelIndices, bStatic) ==
  LET vals == Values(gateStringIndices)
      maxIndex == CHOOSE m \in {vals[i] : i \in 1..Len(vals)} :
                    \A i \in 1..Len(vals) : vals[i] <= m
  IN IF /\ \A i \in 1..Len(vals) : vals[i] >= 0
        /\ \A i \in 1..Len(spamLabelIndices) : spamLabelIndices[i].idx >= 0
        /\ Len(gateStringIndices) > 0 =>
             /\ Len(counts) > maxIndex
             /\ \A i \in 1..Len(counts) :
                  Len(counts[i]) = Len(spamLabelIndices)
     THEN Return(Obj(gateStringIndices, spamLabelIndices, counts, bStatic))
     ELSE Raise(NoObj)

DataSetFromLabels(spamLabels) == Obj(<<>>, Enumerate(spamLabels), <<>>, FALSE)

\* dataset[gateString][spamLabel]
Count(ds, gateString, spamLabel) ==
  ds.counts[Get(ds.gsIndex, gateString) + 1][Get(ds.slIndex, spamLabel) + 1]

\* iteritems: the key iterator of gsIndex and the row iterator of counts are
\* advanced together, so the i-th pair is the i-th key with the i-th row; the
\* iteration ends when either iterator ends.
iteritems(ds) ==
  [i \in 1..Min(Len(ds.gsIndex), Len(ds.counts)) |->
     <<ds.gsIndex[i].key, ds.counts[i]>>]

\* itervalues: the rows of counts, in order.
itervalues(ds) == ds.counts

\* C2's mutant: a known gate string's row is overwritten, not added to.
add_count_list_overwrite(ds, gateString, countList) ==
  IF ds.bStatic THEN Raise(ds)
  ELSE IF RoundsToZero(Sum(countList)) THEN Return(ds)
  ELSE IF Len(countList) # Len(ds.slIndex) THEN Raise(ds)
  ELSE IF Has(ds.gsIndex, gateString)
    THEN Return([ds EXCEPT !.counts[Get(ds.gsIndex, gateString) + 1] = countList])
    ELSE Return([ds EXCEPT
           !.counts = Append(@, countList),
           !.gsIndex = Put(@, gateString, Len(ds.counts))])

\* C3's mutant: the static check is missing.
add_count_list_unguarded(ds, gateString, countList) ==
  IF RoundsToZero(Sum(countList)) THEN Return(ds)
  ELSE IF Len(countList) # Len(ds.slIndex) THEN Raise(ds)
  ELSE IF Has(ds.gsIndex, gateString)
    THEN Return([ds EXCEPT
           !.counts[Get(ds.gsIndex, gateString) + 1] = AddRows(@, countList)])
    ELSE Return([ds EXCEPT
           !.counts = Append(@, countList),
           !.gsIndex = Put(@, gateString, Len(ds.counts))])

\* C26's mutant: the total is checked only when the gate string has a row.
add_count_list_keepzero(ds, gateString, countList) ==
  IF ds.bStatic THEN Raise(ds)
  ELSE IF Len(countList) # Len(ds.slIndex) THEN Raise(ds)
  ELSE IF Has(ds.gsIndex, gateString)
    THEN LET gateStringIndx == Get(ds.gsIndex, gateString)
         IN IF RoundsToZero(Sum(countList)) THEN Return(ds)
            ELSE IF gateStringIndx >= Len(ds.counts) THEN Raise(ds)
            ELSE Return([ds EXCEPT
                   !.counts[gateStringIndx + 1] = AddRows(@, countList)])
    ELSE LET gateStringIndx == Len(ds.counts)
         IN Return([ds EXCEPT
              !.counts = Append(@, countList),
              !.gsIndex = Put(@, gateString, gateStringIndx)])

\* C25's mutant: the length of a count list is checked only when it is added
\* to a row that exists.
add_count_list_anylength(ds, gateString, countList) ==
  IF ds.bStatic THEN Raise(ds)
  ELSE IF RoundsToZero(Sum(countList)) THEN Return(ds)
  ELSE IF Has(ds.gsIndex, gateString)
    THEN LET gateStringIndx == Get(ds.gsIndex, gateString)
         IN IF Len(countList) # Len(ds.slIndex) THEN Raise(ds)
            ELSE IF gateStringIndx >= Len(ds.counts) THEN Raise(ds)
            ELSE Return([ds EXCEPT
                   !.counts[gateStringIndx + 1] = AddRows(@, countList)])
    ELSE LET gateStringIndx == Len(ds.counts)
         IN Return([ds EXCEPT
              !.counts = Append(@, countList),
              !.gsIndex = Put(@, gateString, gateStringIndx)])

add_count_list(ds, gateString, countList) ==
  IF ds.bStatic THEN Raise(ds)
  ELSE IF RoundsToZero(Sum(countList)) THEN Return(ds)
  ELSE IF Len(countList) # Len(ds.slIndex) THEN Raise(ds)
  ELSE IF Has(ds.gsIndex, gateString)
    THEN LET gateStringIndx == Get(ds.gsIndex, gateString)
         IN IF gateStringIndx >= Len(ds.counts) THEN Raise(ds)
            ELSE Return([ds EXCEPT
                   !.counts[gateStringIndx + 1] = AddRows(@, countList)])
    ELSE LET gateStringIndx == Len(ds.counts)
         IN Return([ds EXCEPT
              !.counts = Append(@, countList),
              !.gsIndex = Put(@, gateString, gateStringIndx)])

\* A countDict is a set of <<spamLabel, count>> pairs with distinct labels.
DictKeys(countDict) == {p[1] : p \in countDict}
DictGet(countDict, l) == (CHOOSE p \in countDict : p[1] = l)[2]

\* C7's mutant: a label the mapping omits counts as 0 instead of failing.
add_count_dict_lenient(ds, gateString, countDict) ==
  IF ds.bStatic THEN Raise(ds)
  ELSE IF \E l \in DictKeys(countDict) : ~Has(ds.slIndex, l) THEN Raise(ds)
  ELSE add_count_list(ds, gateString,
         [i \in 1..Len(ds.slIndex) |->
            LET at == {l \in DictKeys(countDict) : Get(ds.slIndex, l) = i - 1}
            IN IF at = {} THEN 0 ELSE DictGet(countDict, CHOOSE l \in at : TRUE)])

add_count_dict(ds, gateString, countDict) ==
  IF ds.bStatic THEN Raise(ds)
  ELSE IF \E l \in DictKeys(countDict) : ~Has(ds.slIndex, l) THEN Raise(ds)
  ELSE
    LET n == Len(ds.slIndex)
        \* the labels written to column i (0-based)
        at(i) == {l \in DictKeys(countDict) : Get(ds.slIndex, l) = i}
        isNan(i) == at(i) = {}
        countList == [i \in 1..n |->
                        IF isNan(i - 1) THEN 0
                        ELSE DictGet(countDict, CHOOSE l \in at(i - 1) : TRUE)]
    IN IF \E l \in DictKeys(countDict) : Get(ds.slIndex, l) >= n THEN Raise(ds)
       ELSE IF \E i \in 0..(n - 1) : isNan(i) THEN Raise(ds)
       ELSE add_count_list(ds, gateString, countList)

\* add_counts_1q.  oldP is a numpy division: a zero total gives nan (0/0)
\* or an infinity, never an exception; newP divides Python numbers and
\* raises ZeroDivisionError.  abs(oldP - newP) > 0.1 is decided on the exact
\* fractions.
add_counts_1q(ds, gateString, nPlus, nMinus) ==
  IF ds.bStatic THEN Raise(ds)
  ELSE IF Has(ds.gsIndex, gateString)
    THEN IF ~Has(ds.slIndex, "plus") \/ ~Has(ds.slIndex, "minus") THEN Raise(ds)
         ELSE
           LET p == Count(ds, gateString, "plus")
               den == p + Count(ds, gateString, "minus")
               newDen == nPlus + nMinus
               discrepancy ==
                 IF den = 0 THEN p # 0
                 ELSE 10 * Abs(p * newDen - nPlus * den) > Abs(den * newDen)
           IN IF newDen = 0 THEN Raise(ds)
              ELSE IF discrepancy THEN Return(ds)
              ELSE add_count_dict(ds, gateString,
                                  {<<"plus", nPlus>>, <<"minus", nMinus>>})
    ELSE add_count_dict(ds, gateString,
                        {<<"plus", nPlus>>, <<"minus", nMinus>>})

RECURSIVE AddRowsFrom(_, _, _, _, _)
\* The loop of add_counts_from_dataset over otherDataSet.iteritems(): the
\* i-th key of gsIndex comes with the i-th row of counts.  When the other
\* DataSet is the receiver itself (same), each row is read as it is when the
\* iteration reaches it.
AddRowsFrom(self, other, same, i, n) ==
  IF i > n THEN Return(self)
  ELSE LET src == IF same THEN self ELSE other
           r == add_count_list(self, src.gsIndex[i].key, src.counts[i])
       IN IF r.outcome = "error" THEN r
          ELSE AddRowsFrom(r.ds, other, same, i + 1, n)

\* C21's mutant: the outcome labels are compared as sets.
add_counts_from_dataset_setwise(self, otherDataSet, same) ==
  LET labels(ds) == {ds.slIndex[i].key : i \in 1..Len(ds.slIndex)}
  IN IF self.bStatic THEN Raise(self)
     ELSE IF labels(self) # labels(otherDataSet) THEN Raise(self)
     ELSE AddRowsFrom(self, otherDataSet, same, 1,
                      Min(Len(otherDataSet.gsIndex), Len(otherDataSet.counts)))

add_counts_from_dataset(self, otherDataSet, same) ==
  IF self.bStatic THEN Raise(self)
  ELSE IF get_spam_labels(self) # get_spam_labels(otherDataSet) THEN Raise(self)
  ELSE AddRowsFrom(self, otherDataSet, same, 1,
                   Min(Len(otherDataSet.gsIndex), Len(otherDataSet.counts)))

RECURSIVE TruncateMutable(_, _, _, _)
\* The loop of truncate's non-static branch over the de-duplicated list.
TruncateMutable(self, trunc_dataset, gateStrings, bThrowErrorIfStringIsMissing) ==
  IF gateStrings = <<>> THEN Return(trunc_dataset)
  ELSE
    LET gateString == Head(gateStrings)
    IN IF Has(self.gsIndex, gateString)
         THEN LET gateStringIndx == Get(self.gsIndex, gateString)
                  r == add_count_list(trunc_dataset, gateString,
                                      self.counts[gateStringIndx + 1])
              IN IF r.outcome = "error" THEN Raise(NoObj)
                 ELSE TruncateMutable(self, r.ds, Tail(gateStrings),
                                      bThrowErrorIfStringIsMissing)
       ELSE IF bThrowErrorIfStringIsMissing THEN Raise(NoObj)
       ELSE TruncateMutable(self, trunc_dataset, Tail(gateStrings),
                            bThrowErrorIfStringIsMissing)

\* truncate: the new DataSet, or an exception and no DataSet.
truncate(self, listOfGateStringsToKeep, bThrowErrorIfStringIsMissing) ==
  IF self.bStatic
    THEN
      LET found(gs) == Has(self.gsIndex, gs)
          kept == SelectSeq(listOfGateStringsToKeep, found)
          gateStringIndices == [i \in 1..Len(kept) |-> Get(self.gsIndex, kept[i])]
          gateStrings == IF bThrowErrorIfStringIsMissing
                           THEN listOfGateStringsToKeep ELSE kept
          trunc_gsIndex == FromPairs(gateStrings, gateStringIndices)
      IN IF bThrowErrorIfStringIsMissing
              /\ Len(kept) # Len(listOfGateStringsToKeep)
           THEN Raise(NoObj)
           ELSE DataSetInit(self.counts, trunc_gsIndex, self.slIndex, TRUE)
    ELSE TruncateMutable(self, DataSetFromLabels(get_spam_labels(self)),
                         remove_duplicates(listOfGateStringsToKeep),
                         bThrowErrorIfStringIsMissing)

\* copy of a non-static DataSet (a static one returns itself)
copy(self) ==
  [DataSetFromLabels(get_spam_labels(self)) EXCEPT
     !.gsIndex = self.gsIndex, !.counts = self.counts]

\* C27's mutant: the array made for a DataSet without rows has no columns.
newCounts_nocolumns(self) ==
  IF Len(self.counts) > 0
    THEN [shape |-> <<Len(self.counts), Len(self.counts[1])>>,
          rows |-> self.counts]
    ELSE [shape |-> <<0, 0>>, rows |-> <<>>]

\* newCounts of done_adding_data, a 2-D array given by its shape and its
\* rows: the rows of the list, each reshaped to (1, -1), concatenated along
\* axis 0, or the empty array of shape (0, len(slIndex)).
newCounts(self) ==
  IF Len(self.counts) > 0
    THEN [shape |-> <<Len(self.counts), Len(self.counts[1])>>,
          rows |-> self.counts]
    ELSE [shape |-> <<0, Len(self.slIndex)>>, rows |-> <<>>]

\* C20's mutant: a call on a static DataSet starts its counts afresh.
done_adding_data_reset(self) ==
  IF self.bStatic THEN [self EXCEPT !.counts = <<>>]
  ELSE [self EXCEPT !.bStatic = TRUE]

\* C4's mutant: the call flips the flag instead of setting it.
done_adding_data_toggle(self) == [self EXCEPT !.bStatic = ~@]

done_adding_data(self) ==
  IF self.bStatic THEN self
  ELSE [self EXCEPT !.counts = newCounts(self).rows, !.bStatic = TRUE]

\* ------------------------------------------------------------ persistence
DefaultMinLen == 20
DefaultMaxPeriod == 20

NoFile ==
  [written |-> FALSE, gsIndexKeys |-> <<>>, gsIndexVals |-> <<>>,
   slIndex |-> <<>>, bStatic |-> FALSE, nRows |-> 0, arrays |-> <<>>]

Compressed(gs) == compress_gate_label_tuple(gs, DefaultMinLen, DefaultMaxPeriod)

\* save: the pickled dictionary and the arrays written after it; an
\* exception while the dictionary is built writes nothing.
save(self, old) ==
  LET keys == Keys(self.gsIndex)
  IN IF \E i \in 1..Len(keys) : ~Compressed(keys[i]).ok
       THEN [outcome |-> "error", file |-> old]
       ELSE [outcome |-> "ok",
             file |-> [written |-> TRUE,
                       gsIndexKeys |-> [i \in 1..Len(keys) |-> Compressed(keys[i]).val],
                       gsIndexVals |-> Values(self.gsIndex),
                       slIndex |-> self.slIndex,
                       bStatic |-> self.bStatic,
                       nRows |-> IF self.bStatic THEN 0 ELSE Len(self.counts),
                       arrays |-> self.counts]]

\* load: every field of the receiver is replaced by what the file holds; an
\* exception while the keys are expanded leaves the receiver as it was.
load(self, f) ==
  LET expanded == [i \in 1..Len(f.gsIndexKeys) |->
                     expand_gate_label_tuple(f.gsIndexKeys[i])]
  IN IF \E i \in 1..Len(expanded) : ~expanded[i].ok THEN Raise(self)
     ELSE Return(Obj(
            FromPairs([i \in 1..Len(expanded) |-> expanded[i].val], f.gsIndexVals),
            f.slIndex,
            IF f.bStatic THEN f.arrays ELSE SubSeq(f.arrays, 1, f.nRows),
            f.bStatic))

\* ------------------------------------------------------------------ state
VARIABLES
  heap,   \* object id -> DataSet object (NoObj: no such object yet)
  file,   \* what the last save wrote
  last,   \* the last call: method, receiver, arguments, outcome, result
  pre,    \* heap as it was when the last call began
  nops,   \* calls made so far
  iter,     \* what the last iteritems / itervalues call yielded
  cs,     \* a compress / expand run: inputs, compressed tuple, expansion
  fp,     \* a fiducial pair search: inputs, random draws, results
  memo,   \* a memoized function: its cache and the calls made
  basis   \* Basis.BasisDict and the Basis objects constructed

vars == <<heap, file, last, pre, nops, iter, cs, fp, memo, basis>>

ObjIds == 1..MaxObjs
Alive == {d \in ObjIds : heap[d].alive}
HasFree == \E d \in ObjIds : ~heap[d].alive
Free == CHOOSE d \in ObjIds : ~heap[d].alive /\ \A e \in 1..(d - 1) : heap[e].alive

Call(op, d, g, c, m, keep, flag, other, outcome, ret) ==
  [op |-> op, d |-> d, g |-> g, c |-> c, m |-> m, keep |-> keep,
   flag |-> flag, other |-> other, outcome |-> outcome, ret |-> ret]
NoCall == Call("none", 0, <<>>, <<>>, {}, <<>>, FALSE, 0, "ok", 0)
NoIter == [items |-> <<>>, values |-> <<>>]

\* One call: the heap, the file and the iteration result it leaves.
Yield(call, newHeap, newFile, newIt) ==
  /\ nops < MaxOps
  /\ heap' = newHeap
  /\ file' = newFile
  /\ last' = call
  /\ pre' = heap
  /\ nops' = nops + 1
  /\ iter' = newIt
  /\ UNCHANGED <<cs, fp, memo, basis>>

\* One call: the heap and the file it leaves.
Step(call, newHeap, newFile) == Yield(call, newHeap, newFile, NoIter)

\* -------------------------------------------------------------- the inputs
GateStrs == {<<"Gx">>, <<"CCC">>}
U(n) == n * Denom
\* count lists: the two of the accumulation scenario, a negative one, two
\* whose total rounds to zero (one of them not zero), and three of a wrong
\* length (one of them with a total that rounds to zero)
CountLists ==
  {<<U(10), 0>>, <<U(5), U(5)>>, <<-U(5), -U(5)>>, <<0, 0>>, <<1, 0>>,
   <<U(5)>>, <<>>, <<U(5), 0, 0>>}
CountDicts ==
  {{<<"plus", U(10)>>, <<"minus", 0>>}, {<<"plus", U(5)>>, <<"minus", U(5)>>},
   {<<"plus", 0>>, <<"minus", 0>>}, {<<"plus", U(10)>>},
   {<<"plus", U(5)>>, <<"minus", U(5)>>, <<"zero", U(5)>>}, {<<"zero", 0>>}}
Counts1q == {<<U(10), 0>>, <<U(5), U(5)>>, <<0, 0>>}
KeepLists == {<<>>, <<<<"Gx">>>>, <<<<"CCC">>, <<"Gx">>>>, <<<<"Gx">>, <<"Gx">>>>}
\* the label index a DataSet is constructed with: spamLabels = [plus, minus],
\* or spamLabelIndices = OrderedDict([(plus, 1), (minus, 0)])
LabelIndices ==
  {Enumerate(<<"plus", "minus">>), <<Entry("plus", 1), Entry("minus", 0)>>}

\* ---------------------------------------------------------------- actions
AddCountList(d, g, c) ==
  LET r == add_count_list(heap[d], g, c)
  IN Step(Call("add_count_list", d, g, c, {}, <<>>, FALSE, 0, r.outcome, 0),
          [heap EXCEPT ![d] = r.ds], file)

AddCountDict(d, g, m) ==
  LET r == add_count_dict(heap[d], g, m)
  IN Step(Call("add_count_dict", d, g, <<>>, m, <<>>, FALSE, 0, r.outcome, 0),
          [heap EXCEPT ![d] = r.ds], file)

AddCounts1q(d, g, n) ==
  LET r == add_counts_1q(heap[d], g, n[1], n[2])
  IN Step(Call("add_counts_1q", d, g, n, {}, <<>>, FALSE, 0, r.outcome, 0),
          [heap EXCEPT ![d] = r.ds], file)

AddCountsFromDataset(d, o) ==
  LET r == add_counts_from_dataset(heap[d], heap[o], d = o)
  IN Step(Call("add_counts_from_dataset", d, <<>>, <<>>, {}, <<>>, FALSE, o,
               r.outcome, 0),
          [heap EXCEPT ![d] = r.ds], file)

Truncate(d, keep, flag) ==
  /\ HasFree
  /\ LET r == truncate(heap[d], keep, flag)
         new == IF r.outcome = "ok" THEN Free ELSE 0
     IN Step(Call("truncate", d, <<>>, <<>>, {}, keep, flag, 0, r.outcome, new),
             IF r.outcome = "ok" THEN [heap EXCEPT ![Free] = r.ds] ELSE heap,
             file)

Copy(d) ==
  IF heap[d].bStatic
    THEN Step(Call("copy", d, <<>>, <<>>, {}, <<>>, FALSE, 0, "ok", d), heap, file)
    ELSE /\ HasFree
         /\ Step(Call("copy", d, <<>>, <<>>, {}, <<>>, FALSE, 0, "ok", Free),
                 [heap EXCEPT ![Free] = copy(heap[d])], file)

\* ret is the shape of the array the call stores (no array is made for a
\* DataSet that is static already).
DoneAddingData(d) ==
  Step(Call("done_adding_data", d, <<>>, <<>>, {}, <<>>, FALSE, 0, "ok",
            IF heap[d].bStatic THEN <<>> ELSE newCounts(heap[d]).shape),
       [heap EXCEPT ![d] = done_adding_data(heap[d])], file)

\* Beside what save wrote, the file is given the DataSet that was saved, as
\* it was then (saved); nothing reads it but the claims.
Save(d) ==
  LET r == save(heap[d], file)
  IN Step(Call("save", d, <<>>, <<>>, {}, <<>>, FALSE, 0, r.outcome, 0),
          heap,
          IF r.outcome = "ok" THEN r.file @@ ("saved" :> heap[d]) ELSE file)

Load(d) ==
  /\ file.written
  /\ LET r == load(heap[d], file)
     IN Step(Call("load", d, <<>>, <<>>, {}, <<>>, FALSE, 0, r.outcome, 0),
             [heap EXCEPT ![d] = r.ds], file)

IterItems(d) ==
  Yield(Call("iteritems", d, <<>>, <<>>, {}, <<>>, FALSE, 0, "ok", 0),
        heap, file, [NoIter EXCEPT !.items = iteritems(heap[d])])

IterValues(d) ==
  Yield(Call("itervalues", d, <<>>, <<>>, {}, <<>>, FALSE, 0, "ok", 0),
        heap, file, [NoIter EXCEPT !.values = itervalues(heap[d])])

\* ---------------------------------------------------- fiducial pair search
\* The derivative matrices are those whose rows have at most one non-zero
\* entry; an entry is a multiple of 1/MxDenom, stored as its numerator.  The
\* singular values of such a matrix are the norms of its columns, so a
\* singular value is kept as its square (times MxDenom squared).
MxDenom == 20
NumParams == 2

RECURSIVE GCD(_, _)
GCD(a, b) == IF b = 0 THEN a ELSE GCD(b, a % b)

\* f(n) / f(r) / f(n-r), with f the factorial
RECURSIVE Factorial(_)
Factorial(n) == IF n <= 0 THEN 1 ELSE n * Factorial(n - 1)
nCr(n, r) == (Factorial(n) \div Factorial(r)) \div Factorial(n - r)

RECURSIVE InsertDesc(_, _)
InsertDesc(x, sorted) ==
  IF sorted = <<>> THEN <<x>>
  ELSE IF x >= Head(sorted) THEN <<x>> \o sorted
  ELSE <<Head(sorted)>> \o InsertDesc(x, Tail(sorted))

RECURSIVE SortDesc(_)
\* sorted(s, reverse=True)
SortDesc(s) == IF s = <<>> THEN <<>> ELSE InsertDesc(Head(s), SortDesc(Tail(s)))

RECURSIVE SortAsc(_)
\* sorted(s)
SortAsc(s) ==
  IF s = <<>> THEN <<>>
  ELSE LET rest == SortAsc(Tail(s))
           below == SelectSeq(rest, LAMBDA y : y < Head(s))
           above == SelectSeq(rest, LAMBDA y : y >= Head(s))
       IN below \o <<Head(s)>> \o above

RECURSIVE ColumnSq(_, _)
\* the squared norm of column j
ColumnSq(M, j) ==
  IF M = <<>> THEN 0 ELSE Head(M)[j] * Head(M)[j] + ColumnSq(Tail(M), j)

\* numpy.linalg.svd(M, compute_uv=False): the min(rows, columns) singular
\* values, largest first.
svd(M) ==
  Slice(SortDesc([j \in 1..NumParams |-> ColumnSq(M, j)]), 0,
        Min(Len(M), NumParams))

\* numpy.take(M, indices, axis=0), for 0-based indices
Take(M, indices) == [i \in 1..Len(indices) |-> M[indices[i] + 1]]

\* abs(v0) > 0.1, for v0 given by its square
AboveFloor(v0sq) == 100 * v0sq > MxDenom * MxDenom

\* C17's mutant: the comparison with tol is the wrong way round.
RatioAbove_inverted(v0sq, v1sq, L0, L1, tol) ==
  LET g == GCD(L1, L0)
      num == L1 \div g
      den == L0 \div g
  IN tol[1] >= 0
       /\ v1sq * den * den * tol[2] * tol[2] < tol[1] * tol[1] * v0sq * num * num

\* (v1/v0)/L_ratio > tol, for v0 > 0, L0 > 0, L1 > 0 and tol = tol[1]/tol[2]
\* with tol[2] > 0; v0 and v1 are given by their squares.
RatioAbove(v0sq, v1sq, L0, L1, tol) ==
  LET g == GCD(L1, L0)
      num == L1 \div g
      den == L0 \div g
  IN IF tol[1] < 0 THEN TRUE
     ELSE v1sq * den * den * tol[2] * tol[2] > tol[1] * tol[1] * v0sq * num * num

RECURSIVE CountAmplified(_, _, _, _, _, _)
\* the loop over zip(sorted(s0, reverse=True), sorted(s1, reverse=True))
CountAmplified(s0, s1, L0, L1, tol, numAmplified) ==
  IF s0 = <<>> \/ s1 = <<>> THEN numAmplified
  ELSE CountAmplified(Tail(s0), Tail(s1), L0, L1, tol,
         IF AboveFloor(Head(s0)) /\ RatioAbove(Head(s0), Head(s1), L0, L1, tol)
           THEN numAmplified + 1 ELSE numAmplified)

\* C16's mutant: singular values below the floor count too.
get_number_amplified_nofloor(M0, M1, L0, L1, tol, svdFails) ==
  IF M0 \in svdFails \/ M1 \in svdFails THEN 0
  ELSE LET s0 == SortDesc(svd(M0))
           s1 == SortDesc(svd(M1))
       IN Cardinality({i \in 1..Min(Len(s0), Len(s1)) :
                         s0[i] > 0 /\ RatioAbove(s0[i], s1[i], L0, L1, tol)})

\* C18's mutant: a failed decomposition is not caught.
get_number_amplified_unguarded(M0, M1, L0, L1, tol, svdFails) ==
  CountAmplified(SortDesc(svd(M0)), SortDesc(svd(M1)), L0, L1, tol, 0)

\* get_number_amplified; svdFails is the set of matrices whose singular
\* value decomposition raises.
get_number_amplified(M0, M1, L0, L1, tol, svdFails) ==
  IF M0 \in svdFails \/ M1 \in svdFails THEN 0
  ELSE CountAmplified(SortDesc(svd(M0)), SortDesc(svd(M1)), L0, L1, tol, 0)

\* len(prepStrs), len(effectStrs), len(germList) and len(spamLabels)
Shape(nRhoStrs, nEStrs, nGerms, nSpamLabels) ==
  [nRhoStrs |-> nRhoStrs, nEStrs |-> nEStrs, nGerms |-> nGerms,
   nSpamLabels |-> nSpamLabels]
nPossiblePairs(sh) == sh.nRhoStrs * sh.nEStrs

\* gateStringIndicesForPair[i]: the rows of the full matrices that pair i
\* contributes, one per germ and outcome label
gateStringIndicesForPair(sh, i) ==
  LET germFctr == sh.nSpamLabels * sh.nRhoStrs * sh.nEStrs
      spamLabelFctr == sh.nRhoStrs * sh.nEStrs
  IN [j \in 1..(sh.nGerms * sh.nSpamLabels) |->
        ((j - 1) \div sh.nSpamLabels) * germFctr
          + ((j - 1) % sh.nSpamLabels) * spamLabelFctr + i]

RECURSIVE gateStringIndicesForPairs(_, _)
\* the rows of all the pairs of a candidate, in the candidate's order
gateStringIndicesForPairs(sh, pairIndicesToTest) ==
  IF pairIndicesToTest = <<>> THEN <<>>
  ELSE gateStringIndicesForPair(sh, Head(pairIndicesToTest))
         \o gateStringIndicesForPairs(sh, Tail(pairIndicesToTest))

RECURSIVE CombinationsFrom(_, _, _)
\* itertools.combinations(range(lo, n), k): the k-subsets as ascending
\* tuples, in lexicographic order
CombinationsFrom(lo, n, k) ==
  IF k = 0 THEN << <<>> >>
  ELSE IF lo >= n THEN <<>>
  ELSE LET with == CombinationsFrom(lo + 1, n, k - 1)
       IN [j \in 1..Len(with) |-> <<lo>> \o with[j]]
            \o CombinationsFrom(lo + 1, n, k)

Combinations(n, k) == CombinationsFrom(0, n, k)

RECURSIVE filterAll(_, _, _, _)
\* the generator filterAll: the elements of it at the positions randIndices
\* (ascending, distinct), read from position i on with nxt positions found
filterAll(it, randIndices, i, nxt) ==
  IF i >= Len(it) \/ nxt >= Len(randIndices) THEN <<>>
  ELSE IF i = randIndices[nxt + 1]
    THEN <<it[i + 1]>> \o filterAll(it, randIndices, i + 1, nxt + 1)
    ELSE filterAll(it, randIndices, i + 1, nxt)

\* C23's mutant: with nRandom at or above the number of combinations the
\* last combination is left out.
pairIndicesToIterateOver_short(sh, nNeededPairs, searchMode, nRandom, randint) ==
  LET all == Combinations(nPossiblePairs(sh), nNeededPairs)
      nTotalPairCombos == nCr(nPossiblePairs(sh), nNeededPairs)
      randIndices ==
        IF nRandom < nTotalPairCombos
          THEN remove_duplicates(SortAsc(randint[nTotalPairCombos]))
          ELSE [j \in 1..(nTotalPairCombos - 1) |-> j - 1]
  IN IF searchMode = "sequential" THEN all
     ELSE filterAll(all, randIndices, 0, 0)

\* pairIndicesToIterateOver for one subset size; randint[hi] is what
\* RandomState(seed).randint(0, hi, size=nRandom) returns
pairIndicesToIterateOver(sh, nNeededPairs, searchMode, nRandom, randint) ==
  LET all == Combinations(nPossiblePairs(sh), nNeededPairs)
      nTotalPairCombos == nCr(nPossiblePairs(sh), nNeededPairs)
      randIndices ==
        IF nRandom < nTotalPairCombos
          THEN remove_duplicates(SortAsc(randint[nTotalPairCombos]))
          ELSE [j \in 1..nTotalPairCombos |-> j - 1]
  IN IF searchMode = "sequential" THEN all
     ELSE filterAll(all, randIndices, 0, 0)

RECURSIVE CandidatesFrom_descending(_, _, _, _, _)
\* C14's mutant: the larger subsets are tried first.
CandidatesFrom_descending(sh, nNeededPairs, searchMode, nRandom, randint) ==
  IF nNeededPairs >= nPossiblePairs(sh) THEN <<>>
  ELSE CandidatesFrom_descending(sh, nNeededPairs + 1, searchMode, nRandom,
                                 randint)
         \o pairIndicesToIterateOver(sh, nNeededPairs, searchMode, nRandom,
                                     randint)

RECURSIVE CandidatesFrom(_, _, _, _, _)
\* the candidates of the sizes nNeededPairs .. nPossiblePairs-1, in the
\* order the two loops reach them
CandidatesFrom(sh, nNeededPairs, searchMode, nRandom, randint) ==
  IF nNeededPairs >= nPossiblePairs(sh) THEN <<>>
  ELSE pairIndicesToIterateOver(sh, nNeededPairs, searchMode, nRandom, randint)
         \o CandidatesFrom(sh, nNeededPairs + 1, searchMode, nRandom, randint)

\* C24's mutant: the pair index is divided by the number of prep strings.
PairList_by_preps(sh, pairIndices) ==
  [j \in 1..Len(pairIndices) |->
     LET iRhoStr == pairIndices[j] \div sh.nRhoStrs
     IN <<iRhoStr, pairIndices[j] - iRhoStr * sh.nRhoStrs>>]

\* [(iRhoStr, iEStr)] for a tuple of pair indices
PairList(sh, pairIndices) ==
  [j \in 1..Len(pairIndices) |->
     LET iRhoStr == pairIndices[j] \div sh.nEStrs
     IN <<iRhoStr, pairIndices[j] - iRhoStr * sh.nEStrs>>]

\* C15's mutant: the pairs in effect-major order.
listOfAllPairs_effect_major(sh) ==
  [j \in 1..nPossiblePairs(sh) |->
     <<(j - 1) % sh.nRhoStrs, (j - 1) \div sh.nRhoStrs>>]

listOfAllPairs(sh) ==
  [j \in 1..nPossiblePairs(sh) |->
     <<(j - 1) \div sh.nEStrs, (j - 1) % sh.nEStrs>>]

\* C13's mutant: the first candidate that amplifies anything is returned.
find_sufficient_fiducial_pairs_any(sh, fullTestMx0, fullTestMx1, testLs, tol, searchMode, nRandom, randint, svdFails) ==
  LET amplified(pairIndicesToTest) ==
        LET rows == gateStringIndicesForPairs(sh, pairIndicesToTest)
        IN get_number_amplified(Take(fullTestMx0, rows), Take(fullTestMx1, rows),
                                testLs[1], testLs[2], tol, svdFails)
      maxAmplified == get_number_amplified(fullTestMx0, fullTestMx1,
                                           testLs[1], testLs[2], tol, svdFails)
      candidates == CandidatesFrom(sh, 1, searchMode, nRandom, randint)
      hits == {j \in 1..Len(candidates) : amplified(candidates[j]) > 0}
      first == CHOOSE j \in hits : \A h \in hits : j <= h
  IN IF hits = {}
       THEN [ret |-> listOfAllPairs(sh), maxAmplified |-> maxAmplified,
             tested |-> candidates, found |-> FALSE,
             nAmplified |-> [j \in 1..Len(candidates) |->
                               amplified(candidates[j])]]
       ELSE [ret |-> PairList(sh, candidates[first]),
             maxAmplified |-> maxAmplified,
             tested |-> SubSeq(candidates, 1, first), found |-> TRUE,
             nAmplified |-> [j \in 1..first |-> amplified(candidates[j])]]

\* find_sufficient_fiducial_pairs with testPairList=None, given the two full
\* derivative matrices: the list returned, the amplified count of the full
\* matrices, the candidates tested in order with the amplified count of
\* each, and whether the loop returned.
find_sufficient_fiducial_pairs(sh, fullTestMx0, fullTestMx1, testLs, tol, searchMode, nRandom, randint, svdFails) ==
  LET amplified(pairIndicesToTest) ==
        LET rows == gateStringIndicesForPairs(sh, pairIndicesToTest)
        IN get_number_amplified(Take(fullTestMx0, rows), Take(fullTestMx1, rows),
                                testLs[1], testLs[2], tol, svdFails)
      maxAmplified == get_number_amplified(fullTestMx0, fullTestMx1,
                                           testLs[1], testLs[2], tol, svdFails)
      candidates == CandidatesFrom(sh, 1, searchMode, nRandom, randint)
      hits == {j \in 1..Len(candidates) : amplified(candidates[j]) = maxAmplified}
      first == CHOOSE j \in hits : \A h \in hits : j <= h
  IN IF hits = {}
       THEN [ret |-> listOfAllPairs(sh), maxAmplified |-> maxAmplified,
             tested |-> candidates, found |-> FALSE,
             nAmplified |-> [j \in 1..Len(candidates) |->
                               amplified(candidates[j])]]
       ELSE [ret |-> PairList(sh, candidates[first]),
             maxAmplified |-> maxAmplified,
             tested |-> SubSeq(candidates, 1, first), found |-> TRUE,
             nAmplified |-> [j \in 1..first |-> amplified(candidates[j])]]

\* C22's mutant: the amplified count of the full matrices is computed in
\* this mode too.
find_sufficient_fiducial_pairs_testPairList_withmax(sh, fullTestMx0, fullTestMx1, testLs, tol, testPairList, svdFails) ==
  LET rows == gateStringIndicesForPairs(sh,
                [j \in 1..Len(testPairList) |->
                   testPairList[j][1] * sh.nEStrs + testPairList[j][2]])
      testMx0 == Take(fullTestMx0, rows)
      testMx1 == Take(fullTestMx1, rows)
  IN [ret |-> "None",
      printed |-> get_number_amplified(testMx0, testMx1, testLs[1], testLs[2],
                                       tol, svdFails),
      calls |-> <<<<fullTestMx0, fullTestMx1>>, <<testMx0, testMx1>>>>,
      maxAmplified |-> get_number_amplified(fullTestMx0, fullTestMx1,
                                            testLs[1], testLs[2], tol, svdFails),
      tested |-> <<>>]

\* find_sufficient_fiducial_pairs with a testPairList, given the two full
\* derivative matrices: what is returned, the count that is printed, the
\* pairs of matrices get_number_amplified is called with in order, the
\* amplified count of the full matrices (a number, or "unset" when it is
\* not computed) and the candidates the search loop tested.
find_sufficient_fiducial_pairs_testPairList(sh, fullTestMx0, fullTestMx1, testLs, tol, testPairList, svdFails) ==
  LET rows == gateStringIndicesForPairs(sh,
                [j \in 1..Len(testPairList) |->
                   testPairList[j][1] * sh.nEStrs + testPairList[j][2]])
      testMx0 == Take(fullTestMx0, rows)
      testMx1 == Take(fullTestMx1, rows)
  IN [ret |-> "None",
      printed |-> get_number_amplified(testMx0, testMx1, testLs[1], testLs[2],
                                       tol, svdFails),
      calls |-> <<<<testMx0, testMx1>>>>,
      maxAmplified |-> "unset",
      tested |-> <<>>]

\* One search problem and up to two calls of the search on it.
NoRandint == [hi \in {} |-> <<>>]
FpIdle ==
  [pc |-> "idle", sh |-> Shape(0, 0, 0, 0), fullTestMx0 |-> <<>>,
   fullTestMx1 |-> <<>>, testLs |-> <<1, 1>>, svdFails |-> {},
   searchMode |-> "sequential", nRandom |-> 0, seed |-> "None", runs |-> <<>>,
   tests |-> <<>>]

\* the rows of a full derivative matrix
NumRows(sh) == sh.nGerms * sh.nSpamLabels * nPossiblePairs(sh)
\* the inputs: prepStrs x effectStrs x germList x spamLabels sizes
Shapes ==
  {Shape(0, 1, 1, 1), Shape(1, 1, 1, 1), Shape(1, 2, 1, 1), Shape(2, 1, 1, 1),
   Shape(1, 2, 2, 1), Shape(1, 3, 1, 1), Shape(2, 2, 1, 1), Shape(1, 1, 1, 2)}
\* the sizes searched in random mode
RandomShapes == {sh \in Shapes : NumRows(sh) <= 3}
\* a row of the two derivative matrices (L = testLs[0] and L = testLs[1]):
\* a parameter that is not amplified, one that grows eightfold (in the first
\* or the second column), and one below the floor at testLs[0]
RowKinds == {"flat", "amp1", "amp2", "tiny"}
\* the kinds of rows tried for a shape: all of them for up to two rows
RowKindsFor(sh) == IF NumRows(sh) <= 2 THEN RowKinds ELSE RowKinds \ {"tiny"}
Row0(kind) ==
  IF kind = "amp2" THEN <<0, MxDenom>>
  ELSE IF kind = "tiny" THEN <<1, 0>>
  ELSE <<MxDenom, 0>>
Row1(kind) ==
  IF kind = "amp2" THEN <<0, 8 * MxDenom>>
  ELSE IF kind = "flat" THEN <<MxDenom, 0>>
  ELSE <<8 * MxDenom, 0>>
DefaultTestLs == <<256, 2048>>
\* tol as a fraction: the default 0.75, and 0.1
Tols == {<<3, 4>>, <<1, 10>>}
Seeds == {"None", "0"}
\* the matrices whose decomposition fails: none, the full matrix at
\* testLs[0], or the rows of the first pair at testLs[1]
FailChoices(sh, fullTestMx0, fullTestMx1) ==
  {{}, {fullTestMx0}}
    \cup IF nPossiblePairs(sh) = 0 THEN {}
         ELSE {{Take(fullTestMx1, gateStringIndicesForPair(sh, 0))}}
\* searchMode, nRandom and seed: the defaults; random mode with a fixed seed
\* and every nRandom; random mode with seed=None and one sample per size
SearchArgs(sh) ==
  {[searchMode |-> "sequential", nRandom |-> 100, seed |-> "None"]}
    \cup IF sh \in RandomShapes
           THEN {[searchMode |-> "random", nRandom |-> n, seed |-> sd] :
                   n \in 1..MaxRandom, sd \in Seeds \ {"None"}}
                  \cup {[searchMode |-> "random", nRandom |-> 1, seed |-> "None"]}
           ELSE {}

\* the upper bounds randint is called with: nTotalPairCombos for every
\* subset size that is sampled
RandintArgs(sh, searchMode, nRandom) ==
  IF searchMode = "sequential" THEN {}
  ELSE {hi \in {nCr(nPossiblePairs(sh), k) : k \in 1..(nPossiblePairs(sh) - 1)} :
          nRandom < hi}

\* what RandomState(seed).randint(0, hi, size=nRandom) can return, for
\* every hi it is called with
Randints(sh, searchMode, nRandom) ==
  LET his == RandintArgs(sh, searchMode, nRandom)
      top == IF his = {} THEN 0 ELSE CHOOSE m \in his : \A h \in his : h <= m
  IN {r \in [his -> [1..nRandom -> 0..(top - 1)]] :
        \A h \in his : \A i \in 1..nRandom : r[h][i] < h}

\* C19's mutant: the seed is not used.
RandomState_unseeded(seed, runs, randints) == randints

\* RandomState(seed): with seed=None the state is seeded afresh and randint
\* can return anything; with a fixed seed it returns what it returned on the
\* call before.
RandomState(seed, runs, randints) ==
  IF seed # "None" /\ runs # <<>> THEN {runs[1].randint} ELSE randints

\* One call of find_sufficient_fiducial_pairs.
FindSufficientFiducialPairs(tol, randint) ==
  /\ fp.pc \in {"input", "searched"}
  /\ randint \in RandomState(fp.seed, fp.runs,
                              Randints(fp.sh, fp.searchMode, fp.nRandom))
  /\ LET r == find_sufficient_fiducial_pairs(
                fp.sh, fp.fullTestMx0, fp.fullTestMx1, fp.testLs, tol,
                fp.searchMode, fp.nRandom, randint, fp.svdFails)
     IN fp' = [fp EXCEPT
                 !.pc = IF fp.pc = "input" THEN "searched" ELSE "repeated",
                 !.runs = Append(@, [tol |-> tol, randint |-> randint,
                                     ret |-> r.ret,
                                     maxAmplified |-> r.maxAmplified,
                                     tested |-> r.tested,
                                     nAmplified |-> r.nAmplified,
                                     found |-> r.found])]
  /\ UNCHANGED <<heap, file, last, pre, nops, iter, cs, memo, basis>>

\* the testPairLists tried: one or two (prepIndex, effectIndex) pairs of the
\* problem, in any order, the same pair twice included
TestPairLists(sh) ==
  LET pairs == (0..(sh.nRhoStrs - 1)) \X (0..(sh.nEStrs - 1))
  IN {<<p>> : p \in pairs} \cup {<<p, q>> : p \in pairs, q \in pairs}

\* One call of find_sufficient_fiducial_pairs with a testPairList.
TestFiducialPairs(tol, testPairList) ==
  /\ fp.pc = "input"
  /\ LET r == find_sufficient_fiducial_pairs_testPairList(
                fp.sh, fp.fullTestMx0, fp.fullTestMx1, fp.testLs, tol,
                testPairList, fp.svdFails)
     IN fp' = [fp EXCEPT
                 !.pc = "tested",
                 !.tests = Append(@, [tol |-> tol, testPairList |-> testPairList,
                                      ret |-> r.ret, printed |-> r.printed,
                                      calls |-> r.calls,
                                      maxAmplified |-> r.maxAmplified,
                                      tested |-> r.tested])]
  /\ UNCHANGED <<heap, file, last, pre, nops, iter, cs, memo, basis>>

\* ---------------------------------------------------------------- memoize
\* A dict is a function; d[k] = v adds the key or replaces its value.
EmptyDict == [k \in {} |-> 0]
SetItem(d, k, v) == (k :> v) @@ d

\* C29's mutant: the function is invoked and its result stored on every
\* call.
memoizer_recompute(cache, args, kwargs, obj) ==
  IF kwargs # {}
    THEN [outcome |-> "error", ret |-> "", cache |-> cache, invoked |-> FALSE]
  ELSE IF obj = "raise"
    THEN [outcome |-> "error", ret |-> "", cache |-> cache, invoked |-> TRUE]
  ELSE [outcome |-> "ok", ret |-> obj, cache |-> SetItem(cache, args, obj),
        invoked |-> TRUE]

\* memoizer(*args, **kwargs) for the cache as it is; obj is what the
\* underlying function does if it is invoked with these arguments now:
\* "raise", or the value it returns.  The result is the outcome, the value
\* returned, the cache left and whether the function was invoked.
memoizer(cache, args, kwargs, obj) ==
  IF kwargs # {}
    THEN [outcome |-> "error", ret |-> "", cache |-> cache, invoked |-> FALSE]
  ELSE IF args \notin DOMAIN cache
    THEN IF obj = "raise"
           THEN [outcome |-> "error", ret |-> "", cache |-> cache,
                 invoked |-> TRUE]
           ELSE [outcome |-> "ok", ret |-> obj,
                 cache |-> SetItem(cache, args, obj), invoked |-> TRUE]
  ELSE [outcome |-> "ok", ret |-> cache[args], cache |-> cache,
        invoked |-> FALSE]

\* the calls tried: tuples of hashable positional arguments, with or without
\* a keyword argument, to a function that may raise and may return another
\* value each time it is invoked
ArgTuples == {<<>>, <<1>>, <<2>>, <<1, 2>>}
KwargSets == {{}, {"k"}}
Behaviours == {"raise", "r1", "r2"}

\* The cache of memoize(obj) beside what the calls so far did: the cache
\* before the last call, the last call, the invocations of obj per argument
\* tuple, those of them that returned, and the first value obj returned per
\* argument tuple.
MemoIdle ==
  [cache |-> EmptyDict, pre |-> EmptyDict,
   last |-> [args |-> <<>>, kwargs |-> {}, outcome |-> "none", ret |-> "",
             invoked |-> FALSE],
   invocations |-> [a \in ArgTuples |-> 0],
   returns |-> [a \in ArgTuples |-> 0],
   first |-> EmptyDict, n |-> 0]

\* One call of the memoized function.
MemoizedCall(args, kwargs, obj) ==
  /\ memo.n < MaxOps
  /\ LET r == memoizer(memo.cache, args, kwargs, obj)
         returned == r.invoked /\ r.outcome = "ok"
     IN memo' = [cache |-> r.cache, pre |-> memo.cache,
                 last |-> [args |-> args, kwargs |-> kwargs,
                           outcome |-> r.outcome, ret |-> r.ret,
                           invoked |-> r.invoked],
                 invocations |-> IF r.invoked
                                   THEN [memo.invocations EXCEPT ![args] = @ + 1]
                                   ELSE memo.invocations,
                 returns |-> IF returned
                               THEN [memo.returns EXCEPT ![args] = @ + 1]
                               ELSE memo.returns,
                 first |-> IF returned /\ args \notin DOMAIN memo.first
                             THEN SetItem(memo.first, args, r.ret)
                             ELSE memo.first,
                 n |-> memo.n + 1]
  /\ UNCHANGED <<heap, file, last, pre, nops, iter, cs, fp, basis>>

\* ------------------------------------------------------------------ Basis
\* A matrix is given by its shape; a Basis object by the number of its
\* construction (its identity), its name, its shape and its matrix labels.
DefaultShape == <<2, 2>>

\* Basis.get(basisname, shape): the Basis registered, or a KeyError
Basis_get(BasisDict, basisname, shape) ==
  LET key == <<basisname, IF shape = "None" THEN DefaultShape ELSE shape>>
  IN IF key \in DOMAIN BasisDict
       THEN [outcome |-> "ok", ret |-> BasisDict[key]]
       ELSE [outcome |-> "error", ret |-> 0]

\* Basis.add(basis)
Basis_add(BasisDict, b) == SetItem(BasisDict, <<b.name, b.shape>>, b)

\* Basis.__init__(name, matrices) as the id-th construction: the outcome and
\* the registry it leaves.
Basis_init(BasisDict, id, name, matrices) ==
  IF ~(Len(matrices) > 0) THEN [outcome |-> "error", BasisDict |-> BasisDict]
  ELSE
    LET shape == matrices[1]
        self == [id |-> id, name |-> name, shape |-> shape,
                 labels |-> [i \in 1..Len(matrices) |-> i - 1]]
    IN IF <<name, shape>> \in DOMAIN BasisDict
         THEN [outcome |-> Basis_get(BasisDict, name, "None").outcome,
               BasisDict |-> BasisDict]
         ELSE [outcome |-> "ok", BasisDict |-> Basis_add(BasisDict, self)]

BasisNames == {"pp", "std"}
MatrixShapes == {<<2, 2>>, <<4, 4>>}
\* the matrices handed to a construction: none, one or two of one shape
MatrixLists == {<<>>} \cup {<<sh>> : sh \in MatrixShapes}
                 \cup {<<sh, sh>> : sh \in MatrixShapes}

\* Basis.BasisDict beside what the constructions so far did: the registry
\* before the last one, the last one, and per (name, shape) the number of
\* the first construction with that name and shape.
BasisIdle ==
  [BasisDict |-> EmptyDict, pre |-> EmptyDict,
   last |-> [name |-> "", matrices |-> <<>>, outcome |-> "none"],
   first |-> EmptyDict, n |-> 0]

\* One construction Basis(name, matrices).
BasisConstruct(name, matrices) ==
  /\ basis.n < MaxOps
  /\ LET id == basis.n + 1
         r == Basis_init(basis.BasisDict, id, name, matrices)
         key == <<name, matrices[1]>>
     IN basis' = [BasisDict |-> r.BasisDict, pre |-> basis.BasisDict,
                  last |-> [name |-> name, matrices |-> matrices,
                            outcome |-> r.outcome],
                  first |-> IF Len(matrices) > 0 /\ key \notin DOMAIN basis.first
                              THEN SetItem(basis.first, key, id)
                              ELSE basis.first,
                  n |-> id]
  /\ UNCHANGED <<heap, file, last, pre, nops, iter, cs, fp, memo>>

\* ----------------------------------------------------------- compress run
Alphabet == {"a", "b", Marker}
RECURSIVE Strings(_)
Strings(n) ==
  IF n = 0 THEN {<<>>}
  ELSE LET shorter == Strings(n - 1)
       IN shorter \cup {Append(s, x) : s \in {t \in shorter : Len(t) = n - 1},
                                        x \in Alphabet}
MinLens == 0..(MaxLen + 1) \cup {DefaultMinLen}
NoResult == [ok |-> FALSE, val |-> <<>>]
CsIdle ==
  [pc |-> "idle", s |-> <<>>, minLen |-> 0, maxPeriod |-> 0,
   z |-> NoResult, x |-> NoResult]

Compress ==
  /\ cs.pc = "input"
  /\ cs' = [cs EXCEPT !.pc = "compressed",
                      !.z = compress_gate_label_tuple(cs.s, cs.minLen, cs.maxPeriod)]
  /\ UNCHANGED <<heap, file, last, pre, nops, iter, fp, memo, basis>>

Expand ==
  /\ cs.pc = "compressed"
  /\ cs.z.ok
  /\ cs' = [cs EXCEPT !.pc = "expanded", !.x = expand_gate_label_tuple(cs.z.val)]
  /\ UNCHANGED <<heap, file, last, pre, nops, iter, fp, memo, basis>>

\* --------------------------------------------------------- specifications
InitDataSet ==
  /\ \E sl \in LabelIndices :
       heap = [d \in ObjIds |-> IF d = 1 THEN Obj(<<>>, sl, <<>>, FALSE) ELSE NoObj]
  /\ file = NoFile
  /\ last = NoCall
  /\ pre = heap
  /\ nops = 0
  /\ iter = NoIter

Init ==
  /\ InitDataSet
  /\ cs = CsIdle
  /\ fp = FpIdle
  /\ memo = MemoIdle
  /\ basis = BasisIdle

Next ==
  \/ \E d \in Alive, g \in GateStrs, c \in CountLists : AddCountList(d, g, c)
  \/ \E d \in Alive, g \in GateStrs, m \in CountDicts : AddCountDict(d, g, m)
  \/ \E d \in Alive, g \in GateStrs, n \in Counts1q : AddCounts1q(d, g, n)
  \/ \E d \in Alive, o \in Alive : AddCountsFromDataset(d, o)
  \/ \E d \in Alive, keep \in KeepLists, flag \in BOOLEAN : Truncate(d, keep, flag)
  \/ \E d \in Alive : Copy(d)
  \/ \E d \in Alive : DoneAddingData(d)
  \/ \E d \in Alive : Save(d)
  \/ \E d \in Alive : Load(d)
  \/ \E d \in Alive : IterItems(d)
  \/ \E d \in Alive : IterValues(d)

Spec == Init /\ [][Next]_vars

\* A DataSet constructed with data, DataSet(counts, gateStrings, spamLabels,
\* bStatic), beside an empty one with the same outcome labels.
BuiltGateStrs == <<<<"Gx">>, <<"CCC">>>>
BuiltCounts == <<<<U(10), 0>>, <<U(5), U(5)>>>>
BuiltLabels == <<"plus", "minus">>

InitBuilt ==
  /\ \E st \in BOOLEAN :
       heap = [d \in ObjIds |->
                 IF d = 1
                   THEN DataSetInit(BuiltCounts, Enumerate(BuiltGateStrs),
                                    Enumerate(BuiltLabels), st).ds
                 ELSE IF d = 2 THEN DataSetFromLabels(BuiltLabels)
                 ELSE NoObj]
  /\ file = NoFile
  /\ last = NoCall
  /\ pre = heap
  /\ nops = 0
  /\ iter = NoIter
  /\ cs = CsIdle
  /\ fp = FpIdle
  /\ memo = MemoIdle
  /\ basis = BasisIdle

SpecBuilt == InitBuilt /\ [][Next]_vars

\* Two empty DataSets, DataSet(spamLabels=...), the second with the same
\* outcome labels as the first, the same in another order, or others.
LabelLists ==
  {<<"plus", "minus">>, <<"minus", "plus">>, <<"plus", "zero">>, <<"plus">>}

InitLabels ==
  /\ \E spamLabels \in LabelLists :
       heap = [d \in ObjIds |->
                 IF d = 1 THEN DataSetFromLabels(BuiltLabels)
                 ELSE IF d = 2 THEN DataSetFromLabels(spamLabels)
                 ELSE NoObj]
  /\ file = NoFile
  /\ last = NoCall
  /\ pre = heap
  /\ nops = 0
  /\ iter = NoIter
  /\ cs = CsIdle
  /\ fp = FpIdle
  /\ memo = MemoIdle
  /\ basis = BasisIdle

NextLabels ==
  \/ \E d \in Alive, g \in GateStrs, c \in CountLists : AddCountList(d, g, c)
  \/ \E d \in Alive, o \in Alive : AddCountsFromDataset(d, o)
  \/ \E d \in Alive : DoneAddingData(d)

SpecLabels == InitLabels /\ [][NextLabels]_vars

\* Two empty mutable DataSets with one label index, and add operations only.
InitAdds ==
  /\ \E sl \in LabelIndices :
       heap = [d \in ObjIds |-> IF d <= 2 THEN Obj(<<>>, sl, <<>>, FALSE) ELSE NoObj]
  /\ file = NoFile
  /\ last = NoCall
  /\ pre = heap
  /\ nops = 0
  /\ iter = NoIter
  /\ cs = CsIdle
  /\ fp = FpIdle
  /\ memo = MemoIdle
  /\ basis = BasisIdle

NextAdds ==
  \/ \E d \in Alive, g \in GateStrs, c \in CountLists : AddCountList(d, g, c)
  \/ \E d \in Alive, g \in GateStrs, m \in CountDicts : AddCountDict(d, g, m)
  \/ \E d \in Alive, g \in GateStrs, n \in Counts1q : AddCounts1q(d, g, n)
  \/ \E d \in Alive, o \in Alive : AddCountsFromDataset(d, o)

SpecAdds == InitAdds /\ [][NextAdds]_vars

InitSearch ==
  /\ heap = [d \in ObjIds |-> IF d = 1 THEN DataSetFromLabels(BuiltLabels) ELSE NoObj]
  /\ file = NoFile
  /\ last = NoCall
  /\ pre = heap
  /\ nops = 0
  /\ iter = NoIter
  /\ cs = CsIdle
  /\ memo = MemoIdle
  /\ basis = BasisIdle
  /\ \E sh \in Shapes :
       \E kinds \in [1..NumRows(sh) -> RowKindsFor(sh)] :
         LET fullTestMx0 == [i \in 1..NumRows(sh) |-> Row0(kinds[i])]
             fullTestMx1 == [i \in 1..NumRows(sh) |-> Row1(kinds[i])]
         IN \E svdFails \in FailChoices(sh, fullTestMx0, fullTestMx1),
               args \in SearchArgs(sh) :
              fp = [FpIdle EXCEPT
                      !.pc = "input", !.sh = sh,
                      !.fullTestMx0 = fullTestMx0, !.fullTestMx1 = fullTestMx1,
                      !.testLs = DefaultTestLs, !.svdFails = svdFails,
                      !.searchMode = args.searchMode,
                      !.nRandom = args.nRandom, !.seed = args.seed]

NextSearch ==
  \/ \E tol \in Tols :
       \E randint \in Randints(fp.sh, fp.searchMode, fp.nRandom) :
         FindSufficientFiducialPairs(tol, randint)
  \/ \E tol \in Tols, testPairList \in TestPairLists(fp.sh) :
       TestFiducialPairs(tol, testPairList)

SpecSearch == InitSearch /\ [][NextSearch]_vars

InitTools ==
  /\ heap = [d \in ObjIds |-> IF d = 1 THEN DataSetFromLabels(BuiltLabels) ELSE NoObj]
  /\ file = NoFile
  /\ last = NoCall
  /\ pre = heap
  /\ nops = 0
  /\ iter = NoIter
  /\ cs = CsIdle
  /\ fp = FpIdle
  /\ memo = MemoIdle
  /\ basis = BasisIdle

NextMemoize ==
  \E args \in ArgTuples, kwargs \in KwargSets, obj \in Behaviours :
    MemoizedCall(args, kwargs, obj)

SpecMemoize == InitTools /\ [][NextMemoize]_vars

NextBasis ==
  \E name \in BasisNames, matrices \in MatrixLists : BasisConstruct(name, matrices)

SpecBasis == InitTools /\ [][NextBasis]_vars

InitCompress ==
  /\ InitDataSet
  /\ fp = FpIdle
  /\ memo = MemoIdle
  /\ basis = BasisIdle
  /\ \E s \in Strings(MaxLen), minLen \in MinLens, maxPeriod \in 1..MaxPeriod :
       cs = [CsIdle EXCEPT !.pc = "input", !.s = s, !.minLen = minLen,
                           !.maxPeriod = maxPeriod]

NextCompress == Compress \/ Expand

SpecCompress == InitCompress /\ [][NextCompress]_vars

\* ------------------------------------------------------------------ claims
\* The receiver of the last call, before and after it.
Old == pre[last.d]
New == heap[last.d]
KeySet(ds) == {ds.gsIndex[i].key : i \in 1..Len(ds.gsIndex)}
LabelSet(ds) == {ds.slIndex[i].key : i \in 1..Len(ds.slIndex)}
RowOf(ds, g) == ds.counts[Get(ds.gsIndex, g) + 1]
AddOps == {"add_count_list", "add_count_dict", "add_counts_1q",
           "add_counts_from_dataset"}
\* the total of a count list is nearer to 0 than to 1 or to -1
TotalNearZero(c) == -Denom < 2 * Sum(c) /\ 2 * Sum(c) < Denom
\* no object other than the receiver changed
OthersUnchanged == \A e \in ObjIds \ {last.d} : heap[e] = pre[e]

\* C1: for every gate string s and every minLenToCompress and
\* maxPeriodToLookFor, compress_gate_label_tuple returns and
\* expand_gate_label_tuple of what it returns is tuple(s).
C1_RoundTrip ==
  /\ cs.pc = "compressed" => cs.z.ok
  /\ cs.pc = "expanded" => cs.x.ok /\ cs.x.val = cs.s

\* C2: on a mutable DataSet, add_count_list(g, c) with c of the right length
\* and a total that does not round to zero succeeds; it adds c element-wise
\* to the row of g when g is present (same gate strings, same indices) and
\* otherwise appends c as a new row at the next free row index; the rows of
\* all other gate strings stay as they were.  Adding {plus: 5, minus: 5} to a
\* row that reads {plus: 10, minus: 0} leaves {plus: 15, minus: 5}.
C2_AddCountListAccumulates ==
  /\ ( /\ last.op = "add_count_list"
       /\ ~Old.bStatic
       /\ Len(last.c) = Len(Old.slIndex)
       /\ ~TotalNearZero(last.c) )
     => /\ last.outcome = "ok"
        /\ IF last.g \in KeySet(Old)
             THEN /\ New.gsIndex = Old.gsIndex
                  /\ Len(New.counts) = Len(Old.counts)
                  /\ \A i \in 1..Len(last.c) :
                       RowOf(New, last.g)[i] = RowOf(Old, last.g)[i] + last.c[i]
             ELSE /\ New.gsIndex = Append(Old.gsIndex, Entry(last.g, Len(Old.counts)))
                  /\ \A h \in KeySet(Old) : Get(Old.gsIndex, h) # Len(Old.counts)
                  /\ Len(New.counts) = Len(Old.counts) + 1
                  /\ RowOf(New, last.g) = last.c
        /\ \A h \in KeySet(Old) \ {last.g} :
             h \in KeySet(New) /\ RowOf(New, h) = RowOf(Old, h)
        /\ New.slIndex = Old.slIndex /\ ~New.bStatic
        /\ OthersUnchanged
  /\ ( /\ last.op = "add_count_dict"
       /\ last.m = {<<"plus", U(5)>>, <<"minus", U(5)>>}
       /\ ~Old.bStatic
       /\ last.g \in KeySet(Old)
       /\ Count(Old, last.g, "plus") = U(10)
       /\ Count(Old, last.g, "minus") = 0 )
     => /\ Count(New, last.g, "plus") = U(15)
        /\ Count(New, last.g, "minus") = U(5)

\* C2's case: a second add for a gate string, leaving the row [15, 5].
C2_Witness ==
  /\ last.op = "add_count_list"
  /\ last.outcome = "ok"
  /\ last.c = <<U(5), U(5)>>
  /\ last.g \in KeySet(Old)
  /\ RowOf(Old, last.g) = <<U(10), 0>>
  /\ RowOf(New, last.g) = <<U(15), U(5)>>

\* C3: add_count_list, add_count_dict, add_counts_1q and
\* add_counts_from_dataset on a static DataSet fail, whatever the arguments,
\* and change nothing.
C3_StaticRejectsAdds ==
  (last.op \in AddOps /\ Old.bStatic)
    => last.outcome = "error" /\ heap = pre

\* C3's case: an add of a well-formed count list to a static DataSet that
\* holds data.
C3_Witness ==
  /\ last.op = "add_count_list"
  /\ Old.bStatic
  /\ Len(Old.counts) > 0
  /\ Len(last.c) = Len(Old.slIndex)
  /\ ~TotalNearZero(last.c)
  /\ last.outcome = "error"

C5_ZeroTotalIsNoOp ==
  (last.op = "add_count_list" /\ ~Old.bStatic /\ TotalNearZero(last.c))
    => last.outcome = "ok" /\ heap = pre

\* C5's case: a non-zero list whose total rounds to zero, for a gate string
\* that is present.
C5_Witness ==
  /\ last.op = "add_count_list"
  /\ ~Old.bStatic
  /\ last.c = <<1, 0>>
  /\ last.g \in KeySet(Old)
  /\ heap = pre

\* C6: on a mutable DataSet, add_count_list with a count list whose length
\* is not the number of outcome labels fails and changes nothing.
C6_WrongLengthFails ==
  (last.op = "add_count_list" /\ ~Old.bStatic /\ Len(last.c) # Len(Old.slIndex))
    => last.outcome = "error" /\ heap = pre

\* the count list a mapping with exactly the DataSet's labels stands for:
\* each count at its label's column
ListOf(ds, m) ==
  [i \in 1..Len(ds.slIndex) |->
     DictGet(m, CHOOSE l \in LabelSet(ds) : Get(ds.slIndex, l) = i - 1)]

\* C7: on a mutable DataSet, add_count_dict fails and changes nothing when
\* the mapping has a label the DataSet lacks or lacks a label the DataSet
\* has; with exactly the DataSet's labels it does what add_count_list does
\* with each count at its label's column.
C7_AddCountDict ==
  (last.op = "add_count_dict" /\ ~Old.bStatic)
    => IF DictKeys(last.m) # LabelSet(Old)
         THEN last.outcome = "error" /\ heap = pre
         ELSE LET r == add_count_list(Old, last.g, ListOf(Old, last.m))
              IN last.outcome = r.outcome /\ New = r.ds /\ OthersUnchanged

\* C7's case: a mapping that omits a label of the DataSet.
C7_Witness ==
  /\ last.op = "add_count_dict"
  /\ ~Old.bStatic
  /\ last.m = {<<"plus", U(10)>>}
  /\ last.outcome = "error"

\* the gate strings of a keep list
KeepSet(keep) == {keep[i] : i \in 1..Len(keep)}

\* C8: truncate(keep, errorIfMissing) on a static or mutable DataSet: with
\* errorIfMissing and a string of keep absent from the source it fails and
\* returns no DataSet; otherwise it returns a DataSet whose gate strings are
\* exactly the strings of keep present in the source.
C8_TruncateKeepsExactly ==
  last.op = "truncate"
    => IF last.flag /\ ~(KeepSet(last.keep) \subseteq KeySet(Old))
         THEN last.outcome = "error" /\ last.ret = 0 /\ heap = pre
         ELSE /\ last.outcome = "ok"
              /\ last.ret \in ObjIds
              /\ KeySet(heap[last.ret]) = KeepSet(last.keep) \cap KeySet(Old)

\* an add to one DataSet changes no other DataSet
AddsAreLocal == last.op \in AddOps => OthersUnchanged

\* C9: every gate string g kept by truncate reads, for every outcome label
\* l, as the source read when truncate was called, for static and mutable
\* sources and any label index; and an add to either DataSet leaves the
\* other as it was.
C9_TruncatePreservesCounts ==
  /\ (last.op = "truncate" /\ last.outcome = "ok")
       => \A g \in KeySet(heap[last.ret]), l \in LabelSet(Old) :
            Count(heap[last.ret], g, l) = Count(Old, g, l)
  /\ AddsAreLocal

\* C10: copy of a static DataSet returns that DataSet; copy of a mutable one
\* returns another, mutable DataSet with the same gate strings and outcome
\* labels that reads as the source for every gate string and label; and an
\* add to either leaves the other as it was.
C10_CopyIsFaithful ==
  /\ last.op = "copy"
       => IF Old.bStatic THEN last.ret = last.d /\ heap = pre
          ELSE /\ last.ret # last.d
               /\ ~pre[last.ret].alive
               /\ ~heap[last.ret].bStatic
               /\ Keys(heap[last.ret].gsIndex) = Keys(Old.gsIndex)
               /\ get_spam_labels(heap[last.ret]) = get_spam_labels(Old)
               /\ \A g \in KeySet(Old), l \in LabelSet(Old) :
                    Count(heap[last.ret], g, l) = Count(Old, g, l)
  /\ AddsAreLocal

\* C11: for every DataSet, however it was made, iteritems yields exactly one
\* (gateString, row) pair per gate string of the DataSet, each row being
\* dataset[gateString], and itervalues yields exactly those rows.
C11_IterationFollowsIndex ==
  /\ last.op = "iteritems"
       => /\ [i \in 1..Len(iter.items) |-> iter.items[i][1]] = Keys(New.gsIndex)
          /\ \A i \in 1..Len(iter.items) :
               iter.items[i][2] = RowOf(New, iter.items[i][1])
  /\ last.op = "itervalues"
       => iter.values = [i \in 1..Len(New.gsIndex) |->
                         RowOf(New, New.gsIndex[i].key)]

\* the DataSet handed to the last add_counts_from_dataset, as it was then
Other == pre[last.other]

\* C12: when the receiver is mutable and both DataSets have the same outcome
\* labels, after receiver.add_counts_from_dataset(other) every gate string g
\* of other whose row does not total zero reads, for every label l,
\* receiver[g][l] = (what it read before, or 0 if g was absent) + other[g][l],
\* and the receiver's gate strings that other lacks keep their rows; for
\* other mutable, static or a truncation of a static DataSet.
C12_AddCountsFromDataset ==
  ( /\ last.op = "add_counts_from_dataset"
    /\ ~Old.bStatic
    /\ Old.slIndex = Other.slIndex )
  => /\ \A g \in KeySet(Other) :
          ~TotalNearZero(RowOf(Other, g))
            => /\ g \in KeySet(New)
               /\ \A l \in LabelSet(Old) :
                    Count(New, g, l)
                      = (IF g \in KeySet(Old) THEN Count(Old, g, l) ELSE 0)
                          + Count(Other, g, l)
     /\ \A g \in KeySet(Old) \ KeySet(Other) :
          g \in KeySet(New) /\ RowOf(New, g) = RowOf(Old, g)

\* ------------------------------------------------- claims about the search
\* the pair indices 0 .. nPossiblePairs-1 and their proper non-empty subsets
PairIndices == 0..(nPossiblePairs(fp.sh) - 1)
ProperSubsets == {S \in SUBSET PairIndices : S # {} /\ S # PairIndices}
\* a set of pair indices as the ascending tuple
RECURSIVE Ascending(_)
Ascending(S) ==
  IF S = {} THEN <<>>
  ELSE LET least == CHOOSE x \in S : \A y \in S : x <= y
       IN <<least>> \o Ascending(S \ {least})
\* ascending tuples of one length in lexicographic order
LexBefore(a, b) ==
  \E i \in 1..Len(a) : a[i] < b[i] /\ \A j \in 1..(i - 1) : a[j] = b[j]
\* the amplified count of the rows of a set of pairs, and of all rows
AmplifiedBy(S, tol) ==
  LET rows == gateStringIndicesForPairs(fp.sh, Ascending(S))
  IN get_number_amplified(Take(fp.fullTestMx0, rows), Take(fp.fullTestMx1, rows),
                          fp.testLs[1], fp.testLs[2], tol, fp.svdFails)
MaxAmplified(tol) ==
  get_number_amplified(fp.fullTestMx0, fp.fullTestMx1,
                       fp.testLs[1], fp.testLs[2], tol, fp.svdFails)
\* the proper subsets that amplify as much as all pairs together
Sufficient(tol) == {S \in ProperSubsets : AmplifiedBy(S, tol) = MaxAmplified(tol)}
\* the set of pair indices a returned list names
IndicesOf(ret) == {ret[j][1] * fp.sh.nEStrs + ret[j][2] : j \in 1..Len(ret)}
Runs == {fp.runs[j] : j \in 1..Len(fp.runs)}

\* C13: in sequential mode, when some proper non-empty subset of the pair
\* indices amplifies as much as all pairs, the search returns such a subset
\* of the smallest size, the lexicographically first of that size, as
\* (prepIndex, effectIndex) pairs in ascending order.
C13_SequentialFirstSmallest ==
  \A r \in Runs :
    LET sufficient == Sufficient(r.tol)
        returned == Ascending(IndicesOf(r.ret))
    IN (fp.searchMode = "sequential" /\ sufficient # {})
         => /\ IndicesOf(r.ret) \in sufficient
            /\ r.ret = PairList(fp.sh, returned)
            /\ \A S \in sufficient :
                 /\ Cardinality(S) >= Len(r.ret)
                 /\ Cardinality(S) = Len(r.ret)
                      => ~LexBefore(Ascending(S), returned)

\* C13's case: two pairs are needed, and a later subset of two would do too.
C13_Witness ==
  \E r \in Runs :
    /\ fp.searchMode = "sequential"
    /\ Len(r.ret) = 2
    /\ nPossiblePairs(fp.sh) > 2
    /\ r.maxAmplified > 0
    /\ \E S \in Sufficient(r.tol) :
         Cardinality(S) = 2 /\ LexBefore(Ascending(IndicesOf(r.ret)), Ascending(S))

\* the pair indices of a tested candidate
SetOf(candidate) == {candidate[j] : j \in 1..Len(candidate)}

\* C14 as stated: in sequential and in random mode the returned list
\* amplifies as much as all pairs together and no subset with fewer pairs
\* does.
C14_SmallestInBothModes ==
  \A r \in Runs :
    /\ IndicesOf(r.ret) = PairIndices \/ IndicesOf(r.ret) \in Sufficient(r.tol)
    /\ \A S \in Sufficient(r.tol) : Cardinality(S) >= Len(r.ret)

\* C14 as amended: in both modes the returned list amplifies as much as all
\* pairs together, the candidates are tested by ascending size, and no
\* candidate tested before the returned one does; in sequential mode no
\* subset with fewer pairs does.
C14_SmallestAmongTested ==
  \A r \in Runs :
    LET sufficient == Sufficient(r.tol)
    IN /\ IndicesOf(r.ret) = PairIndices \/ IndicesOf(r.ret) \in sufficient
       /\ \A j \in 1..Len(r.tested) :
            /\ j > 1 => Len(r.tested[j - 1]) <= Len(r.tested[j])
            /\ SetOf(r.tested[j]) \in sufficient
                 => /\ j = Len(r.tested)
                    /\ r.ret = PairList(fp.sh, r.tested[j])
       /\ fp.searchMode = "sequential"
            => \A S \in sufficient : Cardinality(S) >= Len(r.ret)

\* C14's case: a random-mode search returns two pairs although one would do.
C14_Witness ==
  \E r \in Runs :
    /\ fp.searchMode = "random"
    /\ Len(r.ret) = 2
    /\ IndicesOf(r.ret) \in Sufficient(r.tol)
    /\ \E S \in Sufficient(r.tol) : Cardinality(S) = 1

\* every (prepIndex, effectIndex), prep-major
AllPairsPrepMajor ==
  [j \in 1..nPossiblePairs(fp.sh) |->
     <<(j - 1) \div fp.sh.nEStrs, (j - 1) % fp.sh.nEStrs>>]

\* C15 as stated: in sequential and in random mode the full prep-major list
\* is returned if and only if no proper non-empty subset of the pair indices
\* amplifies as much as all pairs together (also for 0 and 1 pairs).
C15_FullListIffNoSubset ==
  \A r \in Runs : (r.ret = AllPairsPrepMajor) <=> (Sufficient(r.tol) = {})

\* C15 as amended: the full prep-major list is returned if and only if no
\* candidate that was tested amplifies as much as all pairs together; in
\* sequential mode, if and only if no proper non-empty subset does (also for
\* 0 and 1 pairs).
C15_FullListIffNoneTested ==
  \A r \in Runs :
    LET sufficient == Sufficient(r.tol)
    IN /\ (r.ret = AllPairsPrepMajor)
            <=> (\A j \in 1..Len(r.tested) : SetOf(r.tested[j]) \notin sufficient)
       /\ fp.searchMode = "sequential"
            => ((r.ret = AllPairsPrepMajor) <=> (sufficient = {}))

\* C15's case: a sequential search over four pairs (two by two) that no
\* proper subset satisfies returns all four.
C15_Witness ==
  \E r \in Runs :
    /\ fp.searchMode = "sequential"
    /\ fp.sh.nRhoStrs = 2 /\ fp.sh.nEStrs = 2
    /\ Sufficient(r.tol) = {}
    /\ r.ret = <<<<0, 0>>, <<0, 1>>, <<1, 0>>, <<1, 1>>>>

\* the squared singular values of a matrix, largest first
Singular(M) == SortDesc(svd(M))
\* L1 / L0 for the test lengths of the search (L0 divides L1)
LRatio == fp.testLs[2] \div fp.testLs[1]
\* the rank positions i with |v0_i| > 0.1 and (v1_i/v0_i)/(L1/L0) > tol
AmplifiedPositions(M0, M1, tol) ==
  LET v0sq == Singular(M0)
      v1sq == Singular(M1)
  IN {i \in 1..Min(Len(v0sq), Len(v1sq)) :
        /\ 100 * v0sq[i] > MxDenom * MxDenom
        /\ \/ tol[1] < 0
           \/ v1sq[i] * tol[2] * tol[2]
                > tol[1] * tol[1] * v0sq[i] * LRatio * LRatio}
\* the decomposition of one of two matrices fails
SvdFails(M0, M1) == M0 \in fp.svdFails \/ M1 \in fp.svdFails
\* the two matrices of a tested candidate
Taken0(candidate) ==
  Take(fp.fullTestMx0, gateStringIndicesForPairs(fp.sh, candidate))
Taken1(candidate) ==
  Take(fp.fullTestMx1, gateStringIndicesForPairs(fp.sh, candidate))

\* C16: when both decompositions succeed the tester returns the number of
\* rank positions i (singular values of M0 and of M1 sorted descending and
\* paired by position, up to the shorter list) with |v0_i| > 0.1 and
\* (v1_i/v0_i)/(L1/L0) > tolerance, for the full matrices and for every
\* candidate tested; for M0 = M1, L0 = 256, L1 = 2048 and tolerance 0.75 it
\* returns 0.
C16_AmplifiedCountExact ==
  \A r \in Runs :
    /\ ~SvdFails(fp.fullTestMx0, fp.fullTestMx1)
         => r.maxAmplified
              = Cardinality(AmplifiedPositions(fp.fullTestMx0, fp.fullTestMx1, r.tol))
    /\ \A j \in 1..Len(r.tested) :
         ~SvdFails(Taken0(r.tested[j]), Taken1(r.tested[j]))
           => r.nAmplified[j]
                = Cardinality(AmplifiedPositions(Taken0(r.tested[j]),
                                                 Taken1(r.tested[j]), r.tol))
    /\ ( /\ fp.fullTestMx0 = fp.fullTestMx1
         /\ fp.testLs = <<256, 2048>>
         /\ r.tol = <<3, 4>> )
       => r.maxAmplified = 0

\* C16's case: two singular values at each length, one pair amplified and
\* one whose value at L0 is below the floor although it grows.
C16_Witness ==
  \E r \in Runs :
    /\ ~SvdFails(fp.fullTestMx0, fp.fullTestMx1)
    /\ Len(Singular(fp.fullTestMx0)) = 2
    /\ r.maxAmplified = 1
    /\ \E i \in 1..2 :
         /\ Singular(fp.fullTestMx0)[i] > 0
         /\ 100 * Singular(fp.fullTestMx0)[i] <= MxDenom * MxDenom
         /\ Singular(fp.fullTestMx1)[i] > Singular(fp.fullTestMx0)[i]

\* tolerance a is at most tolerance b
TolLeq(a, b) == a[1] * b[2] <= b[1] * a[2]

\* C17: for the same matrices and test lengths, a search with the smaller
\* tolerance counts at least as many amplified parameters, for the full
\* matrices and for every candidate both searches tested.
C17_MonotoneInTolerance ==
  \A r1 \in Runs, r2 \in Runs :
    TolLeq(r1.tol, r2.tol)
      => /\ r1.maxAmplified >= r2.maxAmplified
         /\ \A j1 \in 1..Len(r1.tested), j2 \in 1..Len(r2.tested) :
              r1.tested[j1] = r2.tested[j2]
                => r1.nAmplified[j1] >= r2.nAmplified[j2]

\* C17's case: the smaller tolerance counts strictly more.
C17_Witness ==
  \E r1 \in Runs, r2 \in Runs :
    /\ TolLeq(r1.tol, r2.tol)
    /\ r1.maxAmplified > r2.maxAmplified
    /\ r2.maxAmplified > 0

\* C18: when the decomposition of the full matrices fails, maxAmplified is 0;
\* when that of a candidate fails, the candidate counts 0, so the search
\* returns it if maxAmplified is 0 and goes on otherwise; the search returns
\* a list in every case.
C18_SvdFailureCountsZero ==
  \A r \in Runs :
    /\ SvdFails(fp.fullTestMx0, fp.fullTestMx1) => r.maxAmplified = 0
    /\ \A j \in 1..Len(r.tested) :
         SvdFails(Taken0(r.tested[j]), Taken1(r.tested[j]))
           => /\ r.nAmplified[j] = 0
              /\ IF r.maxAmplified = 0
                   THEN j = Len(r.tested) /\ r.ret = PairList(fp.sh, r.tested[j])
                   ELSE r.ret # PairList(fp.sh, r.tested[j])
    /\ r.found \/ r.ret = AllPairsPrepMajor

\* C18's case: the full matrices would count an amplified parameter, their
\* decomposition fails, and the search returns its first candidate.
C18_Witness ==
  \E r \in Runs :
    /\ SvdFails(fp.fullTestMx0, fp.fullTestMx1)
    /\ AmplifiedPositions(fp.fullTestMx0, fp.fullTestMx1, r.tol) # {}
    /\ r.maxAmplified = 0
    /\ r.found
    /\ Len(r.tested) = 1

C20_DoneAddingDataIdempotent ==
  last.op = "done_adding_data"
    => /\ last.outcome = "ok"
       /\ New.bStatic
       /\ New.gsIndex = Old.gsIndex
       /\ New.slIndex = Old.slIndex
       /\ New.counts = Old.counts
       /\ OthersUnchanged
       /\ Old.bStatic => heap = pre

\* C20's case: the second of two calls, on a DataSet that holds a row.
C20_Witness ==
  /\ last.op = "done_adding_data"
  /\ Old.bStatic
  /\ Len(Old.gsIndex) = 1
  /\ Len(Old.counts) = 1
  /\ heap = pre

\* -------------------------------------------------- claims, third part
\* C21 as stated: add_counts_from_dataset on a mutable receiver fails and
\* leaves the receiver as it was whenever the two DataSets' sets of outcome
\* labels differ, and does not fail when the two sets are equal, whatever
\* the order in which each DataSet lists its labels.
C21_LabelSetsMustAgree ==
  (last.op = "add_counts_from_dataset" /\ ~Old.bStatic)
    => IF LabelSet(Old) # LabelSet(Other)
         THEN last.outcome = "error" /\ heap = pre
         ELSE last.outcome = "ok"

\* C21 as amended: add_counts_from_dataset on a mutable receiver fails and
\* leaves the receiver as it was whenever the two DataSets' lists of outcome
\* labels differ, in content or in order, and does not fail when the two
\* lists are equal.
C21_LabelListsMustAgree ==
  (last.op = "add_counts_from_dataset" /\ ~Old.bStatic)
    => IF Keys(Old.slIndex) # Keys(Other.slIndex)
         THEN last.outcome = "error" /\ heap = pre
         ELSE last.outcome = "ok"

\* C21's case: the other DataSet holds data under the receiver's labels in
\* another order, and the call fails.
C21_Witness ==
  /\ last.op = "add_counts_from_dataset"
  /\ ~Old.bStatic
  /\ LabelSet(Old) = LabelSet(Other)
  /\ Keys(Old.slIndex) # Keys(Other.slIndex)
  /\ Len(Other.counts) > 0
  /\ last.outcome = "error"
  /\ heap = pre

\* the rows of a full derivative matrix that belong to the pairs of a list:
\* for each pair in turn, one row per germ and outcome label
RowsOfPairs(testPairList) ==
  LET per == fp.sh.nGerms * fp.sh.nSpamLabels
  IN [k \in 1..(Len(testPairList) * per) |->
        LET pair == testPairList[((k - 1) \div per) + 1]
            iGerm == ((k - 1) % per) \div fp.sh.nSpamLabels
            iSpamLabel == ((k - 1) % per) % fp.sh.nSpamLabels
        IN iGerm * fp.sh.nSpamLabels * nPossiblePairs(fp.sh)
             + iSpamLabel * nPossiblePairs(fp.sh)
             + pair[1] * fp.sh.nEStrs + pair[2]]
Tests == {fp.tests[j] : j \in 1..Len(fp.tests)}

\* C22: with a testPairList, find_sufficient_fiducial_pairs calls the
\* amplification test once, on the rows of the listed pairs, prints that
\* count, tests no subset, computes no maxAmplified and returns no pair
\* list.
C22_TestPairListOnly ==
  \A r \in Tests :
    LET rows == RowsOfPairs(r.testPairList)
        testMx0 == [k \in 1..Len(rows) |-> fp.fullTestMx0[rows[k] + 1]]
        testMx1 == [k \in 1..Len(rows) |-> fp.fullTestMx1[rows[k] + 1]]
    IN /\ r.calls = <<<<testMx0, testMx1>>>>
       /\ r.printed = get_number_amplified(testMx0, testMx1, fp.testLs[1],
                                           fp.testLs[2], r.tol, fp.svdFails)
       /\ r.tested = <<>>
       /\ r.maxAmplified = "unset"
       /\ r.ret = "None"

\* C22's case: two of four pairs, listed in descending order, that amplify
\* less than all the pairs together do.
C22_Witness ==
  \E r \in Tests :
    /\ Len(r.testPairList) = 2
    /\ r.testPairList[2][1] < r.testPairList[1][1]
    /\ nPossiblePairs(fp.sh) = 4
    /\ r.printed = 1
    /\ MaxAmplified(r.tol) > r.printed

\* the subsets of k pair indices
SubsetsOfSize(k) == {S \in SUBSET PairIndices : Cardinality(S) = k}

\* C23: in random mode the candidates tested are combinations of pair
\* indices (ascending tuples), visited by ascending size and, within a size,
\* in increasing lexicographic position, so pairwise distinct; at most
\* nRandom of each size are tested; and for a size k with
\* nRandom >= C(totalPairs, k) every combination of that size is tested, in
\* lexicographic order, up to the one the search returns.
C23_RandomCandidates ==
  \A r \in Runs :
    fp.searchMode = "random"
      => LET n == Len(r.tested)
             ofSize(k) == {j \in 1..n : Len(r.tested[j]) = k}
         IN /\ \A j \in 1..n :
                 /\ SetOf(r.tested[j]) \subseteq PairIndices
                 /\ r.tested[j] # <<>>
                 /\ r.tested[j] = Ascending(SetOf(r.tested[j]))
                 /\ j > 1 =>
                      \/ Len(r.tested[j - 1]) < Len(r.tested[j])
                      \/ /\ Len(r.tested[j - 1]) = Len(r.tested[j])
                         /\ LexBefore(r.tested[j - 1], r.tested[j])
            /\ \A k \in 1..(nPossiblePairs(fp.sh) - 1) :
                 /\ Cardinality(ofSize(k)) <= fp.nRandom
                 /\ fp.nRandom >= Cardinality(SubsetsOfSize(k))
                      => {SetOf(r.tested[j]) : j \in ofSize(k)}
                           = {S \in SubsetsOfSize(k) :
                                \/ ~r.found
                                \/ k < Len(r.tested[n])
                                \/ /\ k = Len(r.tested[n])
                                   /\ ~LexBefore(r.tested[n], Ascending(S))}

\* C23's case: nRandom is the number of single pairs, and both single pairs
\* are tested, in order, without success.
C23_Witness ==
  \E r \in Runs :
    /\ fp.searchMode = "random"
    /\ nPossiblePairs(fp.sh) = 2
    /\ fp.nRandom = 2
    /\ r.tested = <<<<0>>, <<1>>>>
    /\ ~r.found

\* C24: every list the search returns holds (prepIndex, effectIndex) pairs
\* with 0 <= prepIndex < nPrepStrings and 0 <= effectIndex < nEffectStrings,
\* in strictly increasing order of prepIndex * nEffectStrings + effectIndex
\* (so pairwise distinct); a list returned from the loop names, pair by
\* pair, the pair indices of the candidate that was tested last.
C24_ReturnedPairsDecode ==
  \A r \in Runs :
    /\ \A j \in 1..Len(r.ret) :
         /\ r.ret[j][1] \in 0..(fp.sh.nRhoStrs - 1)
         /\ r.ret[j][2] \in 0..(fp.sh.nEStrs - 1)
         /\ j > 1 => r.ret[j - 1][1] * fp.sh.nEStrs + r.ret[j - 1][2]
                       < r.ret[j][1] * fp.sh.nEStrs + r.ret[j][2]
    /\ r.found
         => /\ Len(r.ret) = Len(r.tested[Len(r.tested)])
            /\ \A j \in 1..Len(r.ret) :
                 r.ret[j][1] * fp.sh.nEStrs + r.ret[j][2]
                   = r.tested[Len(r.tested)][j]

\* C24's case: two of four pairs are returned, the second with prep index 1.
C24_Witness ==
  \E r \in Runs :
    /\ r.found
    /\ fp.sh.nRhoStrs = 2
    /\ fp.sh.nEStrs = 2
    /\ Len(r.ret) = 2
    /\ r.ret[2][1] = 1

\* ------------------------------------------- claims about DataSet states
\* C25: in every DataSet reached from an empty mutable one by adds, copy,
\* truncate and done_adding_data, every stored row has as many entries as
\* there are outcome labels, the row indices of the gate strings are
\* pairwise distinct, non-negative and smaller than the number of stored
\* rows; in a DataSet that was built by adds (any mutable one, a copy or a
\* truncation of a mutable one included) they are 0 .. n-1 in insertion
\* order.
C25_IndexInvariant ==
  \A d \in Alive :
    LET ds == heap[d]
        n == Len(ds.gsIndex)
    IN /\ \A i \in 1..Len(ds.counts) : Len(ds.counts[i]) = Len(ds.slIndex)
       /\ \A i \in 1..n :
            /\ ds.gsIndex[i].idx >= 0
            /\ ds.gsIndex[i].idx < Len(ds.counts)
            /\ \A j \in 1..n : i # j => ds.gsIndex[i].idx # ds.gsIndex[j].idx
       /\ ~ds.bStatic => Values(ds.gsIndex) = [i \in 1..n |-> i - 1]

\* C25's case: a truncation of a mutable DataSet of two rows that keeps both
\* gate strings, in the other order.
C25_Witness ==
  /\ last.op = "truncate"
  /\ last.outcome = "ok"
  /\ ~Old.bStatic
  /\ Len(Old.gsIndex) = 2
  /\ Keys(heap[last.ret].gsIndex) = <<Old.gsIndex[2].key, Old.gsIndex[1].key>>
  /\ Len(heap[last.ret].counts) = 2

\* every entry of a count list is zero or more
NonNegative(c) == \A i \in 1..Len(c) : c[i] >= 0
\* the total of a count list is a half or more, so rounds to 1 or more
TotalPositive(c) == 2 * Sum(c) >= Denom
\* the counts handed to the last add are all zero or more
AddedNonNegative ==
  /\ last.op \in {"add_count_list", "add_counts_1q"} => NonNegative(last.c)
  /\ last.op = "add_count_dict" => \A p \in last.m : p[2] >= 0
  /\ last.op = "add_counts_from_dataset"
       => \A i \in 1..Len(Other.counts) : NonNegative(Other.counts[i])

\* C26 as stated: in every mutable DataSet reached from an empty one by add
\* operations, with any count lists, no stored row has a total that rounds
\* to zero.
C26_NoZeroTotalRow ==
  \A d \in Alive :
    \A i \in 1..Len(heap[d].counts) : ~TotalNearZero(heap[d].counts[i])

\* C26 as amended: in a mutable DataSet reached from an empty one by add
\* operations, no row is stored for a new gate string with a total that
\* rounds to zero; and an add of counts that are all zero or more to a
\* DataSet whose rows all total a half or more leaves every row with a total
\* of a half or more, so that no stored row has a total that rounds to zero
\* as long as no negative count is added.
C26_NoZeroTotalRowInserted ==
  last.op \in AddOps
    => /\ \A g \in KeySet(New) \ KeySet(Old) : ~TotalNearZero(RowOf(New, g))
       /\ ( /\ AddedNonNegative
            /\ \A i \in 1..Len(Old.counts) : TotalPositive(Old.counts[i]) )
          => \A i \in 1..Len(New.counts) : TotalPositive(New.counts[i])

\* C26's case: a count list whose total rounds to zero is added for a gate
\* string that has a row, beside one that has none, and leaves both as they
\* were.
C26_Witness ==
  /\ last.op = "add_count_list"
  /\ last.c = <<1, 0>>
  /\ Len(Old.counts) = 1
  /\ last.g \notin KeySet(Old)
  /\ TotalPositive(Old.counts[1])
  /\ heap = pre

\* C27: done_adding_data on a mutable DataSet leaves it static with the
\* same gate-string index (so as many gate strings), the same label index
\* and the same count for every gate string and label; the counts become
\* one array with a row per stored row and a column per label, also for a
\* DataSet without rows; no other DataSet changes.
C27_DoneAddingDataFrame ==
  (last.op = "done_adding_data" /\ ~Old.bStatic)
    => /\ New.bStatic
       /\ New.gsIndex = Old.gsIndex
       /\ New.slIndex = Old.slIndex
       /\ Len(New.gsIndex) = Len(Old.gsIndex)
       /\ \A g \in KeySet(Old), l \in LabelSet(Old) :
            Count(New, g, l) = Count(Old, g, l)
       /\ last.ret = <<Len(Old.counts), Len(Old.slIndex)>>
       /\ OthersUnchanged

\* C27's case: the call on a DataSet without rows.
C27_Witness ==
  /\ last.op = "done_adding_data"
  /\ ~Old.bStatic
  /\ Old.counts = <<>>
  /\ New.bStatic
  /\ last.ret = <<0, 2>>

\* -------------------------------------------- claims about save and load
\* C28: loading what save wrote reproduces the DataSet that was saved: the
\* same gate strings in the same order with the same row indices, the same
\* label index, the same static flag and the same counts, for static and
\* mutable DataSets and for gate strings of any length and content.
C28_SaveLoadRoundTrip ==
  last.op = "load"
    => /\ last.outcome = "ok"
       /\ New.gsIndex = file.saved.gsIndex
       /\ New.slIndex = file.saved.slIndex
       /\ New.bStatic = file.saved.bStatic
       /\ New.counts = file.saved.counts

\* ------------------------------------------------- claims about the tools
\* a later call: a positional call whose argument tuple has a cache entry
LaterCall ==
  memo.last.outcome # "none" /\ memo.last.kwargs = {}
    /\ memo.last.args \in DOMAIN memo.pre
\* no entry of the cache was removed or replaced by the last call
CacheKept ==
  \A a \in DOMAIN memo.pre : a \in DOMAIN memo.cache /\ memo.cache[a] = memo.pre[a]

\* C29 as stated: over any sequence of positional calls the function is
\* invoked at most once per argument tuple, every later call with a tuple
\* returns the first result for it without invoking the function, and no
\* cache entry is removed or replaced.
C29_InvokedAtMostOnce ==
  /\ \A a \in ArgTuples : memo.invocations[a] <= 1
  /\ LaterCall => /\ ~memo.last.invoked
                  /\ memo.last.outcome = "ok"
                  /\ memo.last.ret = memo.first[memo.last.args]
  /\ CacheKept

\* C29 as amended: the function is invoked on a positional call exactly
\* when no earlier invocation with that argument tuple has returned, so at
\* most one invocation per tuple returns (an invocation that raises stores
\* nothing and the next call invokes again); the cache holds, for just the
\* tuples with an invocation that returned, the value it returned; every
\* later call with the tuple returns that value without invoking the
\* function; and no cache entry is removed or replaced.
C29_ReturnsAtMostOnce ==
  /\ \A a \in ArgTuples : memo.returns[a] <= 1
  /\ memo.cache = memo.first
  /\ DOMAIN memo.cache = {a \in ArgTuples : memo.returns[a] = 1}
  /\ (memo.last.outcome # "none" /\ memo.last.kwargs = {})
       => (memo.last.invoked <=> memo.last.args \notin DOMAIN memo.pre)
  /\ LaterCall => /\ ~memo.last.invoked
                  /\ memo.last.outcome = "ok"
                  /\ memo.last.ret = memo.first[memo.last.args]
  /\ CacheKept

\* C29's case: an invocation raised, the next one returned, and a third
\* call with the same arguments gets that value without an invocation.
C29_Witness ==
  /\ LaterCall
  /\ memo.invocations[memo.last.args] = 2
  /\ memo.returns[memo.last.args] = 1
  /\ ~memo.last.invoked
  /\ memo.last.ret = memo.first[memo.last.args]

\* the (name, shape) of the last construction
LastKey == <<basis.last.name, basis.last.matrices[1]>>

\* C30: after any sequence of constructions Basis.BasisDict maps each
\* (name, shape) to the first Basis constructed with that name and shape;
\* a construction whose (name, shape) is registered already completes
\* without error, for every shape, and leaves the registry as it was.
C30_RegistryKeepsFirst ==
  /\ DOMAIN basis.BasisDict = DOMAIN basis.first
  /\ \A key \in DOMAIN basis.BasisDict :
       /\ basis.BasisDict[key].id = basis.first[key]
       /\ <<basis.BasisDict[key].name, basis.BasisDict[key].shape>> = key
  /\ ( /\ basis.last.outcome # "none"
       /\ basis.last.matrices # <<>>
       /\ LastKey \in DOMAIN basis.pre )
     => basis.last.outcome = "ok" /\ basis.BasisDict = basis.pre
====
